---- MODULE Spec2Model ----
(***************************************************************************)
(* Model of the proposal-review-helper report generators                   *)
(* (src/generate-html-review.py, src/generate-review.py).                  *)
(*                                                                         *)
(* Python strings are TLA+ strings; the string operations the code uses    *)
(* (strip, split, startswith, lower, re.search, html.escape, int) are      *)
(* operators that compute what the Python operations compute.              *)
(* An optional value (None or a string) is a tuple: <<>> is None, <<s>> is *)
(* the string s.                                                           *)
(***************************************************************************)
EXTENDS Integers, Sequences, FiniteSets, TLC

VARIABLES
    \* the repository: what each range query prints when git succeeds
    repo,
    \* the command lines handed to subprocess.run so far, in order
    issued,
    \* the queries whose subprocess.run exited non-zero or raised
    failed,
    \* the number of queries that may still fail in this run
    budget,
    \* run_git_command
    cmd,            \* the command line handed to run_git_command
    result,         \* what subprocess.run did: <<>> before the call
    executions,     \* number of times subprocess.run was entered
    rgc_return,     \* <<>> until run_git_command returns, then <<text>>
    rgc_pc,         \* position inside run_git_command
    \* arguments of get_commit_stats and get_commits
    start_commit, end_commit, paths,
    output_file,    \* the output_file argument of a report generator: <<>> is None
    \* get_commit_stats
    path_filter, commit_count, files_output, files, file_count, diff_stats,
    lines_added, lines_removed,
    stats,          \* <<>> until get_commit_stats returns, then <<dict>>
    gcs_pc,         \* position inside get_commit_stats
    \* get_commits
    generator,      \* "html" (generate-html-review.py) or "markdown" (generate-review.py)
    gc_path_filter, \* the path_filter local of get_commits
    output,         \* the text of the log query
    log_lines,      \* output.split('\n')
    gc_i,           \* the loop's position in log_lines
    commits,        \* the list being built
    commits_return, \* <<>> until get_commits returns, then <<list>>
    gc_pc,          \* position inside get_commits
    \* format_diff_as_html
    diff_text, commit_hash, repo_url,
    lines,          \* diff_text.split('\n')
    fd_i,           \* the loop's position in lines
    current_file, line_numbers, html_lines,
    fd_return,      \* <<>> until format_diff_as_html returns, then <<records>>
    fd_pc,          \* position inside format_diff_as_html
    \* generate_html_report, generate_markdown_report
    ci,             \* the position of the commit loops in commits
    details,        \* what get_commit_details returned for the commit at hand
    report,         \* what has been written to the output file
    report_pc,      \* position inside the report generator
    \* main, get_cached_repo
    args,           \* the command line: --repo (<<>> when not given) and --type
    cache,          \* whether the directory of the cached clone exists
    repo_dir,       \* what get_cached_repo returned: <<>> is None
    printed,        \* the diagnostics printed so far, in order
    exit_status,    \* <<>> while the process runs, then <<status>>
    main_pc         \* position inside main

envVars == <<repo, issued, failed, budget>>

runVars == <<cmd, result, executions, rgc_return, rgc_pc>>

argVars == <<start_commit, end_commit, paths, output_file>>

statsVars == <<path_filter, commit_count, files_output, files, file_count, diff_stats,
               lines_added, lines_removed, stats, gcs_pc>>

commitsVars == <<generator, gc_path_filter, output, log_lines, gc_i, commits, commits_return,
                 gc_pc>>

diffVars == <<diff_text, commit_hash, repo_url, lines, fd_i, current_file, line_numbers,
              html_lines, fd_return, fd_pc>>

reportVars == <<ci, details, report, report_pc>>

mainVars == <<args, cache, repo_dir, printed, exit_status, main_pc>>

vars == <<envVars, runVars, argVars, statsVars, commitsVars, diffVars, reportVars, mainVars>>

\* what the steps of one function leave alone
outsideRun == <<envVars, argVars, statsVars, commitsVars, diffVars, reportVars, mainVars>>

outsideStats == <<runVars, commitsVars, diffVars, reportVars, mainVars>>

outsideCommits == <<runVars, statsVars, diffVars, reportVars, mainVars>>

outsideDiff == <<envVars, runVars, argVars, statsVars, commitsVars, reportVars, mainVars>>

----------------------------------------------------------------------------
(* Python string operations *)

None == <<>>

Some(s) == <<s>>

\* the characters str.strip() removes, among those the model's texts use
Whitespace == {" ", "\t", "\n", "\r"}

Char(s, k) == SubSeq(s, k, k)

\* s[k-1:] of Python, k counted from 1
From(s, k) == SubSeq(s, k, Len(s))

startswith(s, p) == Len(s) >= Len(p) /\ SubSeq(s, 1, Len(p)) = p

\* p in s
contains(s, p) == \E k \in 1..(Len(s) - Len(p) + 1) : SubSeq(s, k, k + Len(p) - 1) = p

RECURSIVE lstrip(_)
lstrip(s) == IF Len(s) > 0 /\ Char(s, 1) \in Whitespace THEN lstrip(From(s, 2)) ELSE s

RECURSIVE rstrip(_)
rstrip(s) ==
    IF Len(s) > 0 /\ Char(s, Len(s)) \in Whitespace
    THEN rstrip(SubSeq(s, 1, Len(s) - 1))
    ELSE s

\* str.strip()
strip(s) == rstrip(lstrip(s))

\* position of the first occurrence of the character c in s, 0 when there is none
RECURSIVE FindFrom(_, _, _)
FindFrom(s, c, k) ==
    IF k > Len(s) THEN 0
    ELSE IF Char(s, k) = c THEN k
    ELSE FindFrom(s, c, k + 1)

find(s, c) == FindFrom(s, c, 1)

\* s.split(c, maxsplit): at most maxsplit splits, from the left; maxsplit < 0 is no limit
RECURSIVE splitmax(_, _, _)
splitmax(s, c, maxsplit) ==
    LET k == find(s, c) IN
    IF maxsplit = 0 \/ k = 0 THEN <<s>>
    ELSE <<SubSeq(s, 1, k - 1)>> \o splitmax(From(s, k + 1), c, maxsplit - 1)

\* s.split(c)
split(s, c) == splitmax(s, c, -1)

\* c.join(parts)
RECURSIVE join(_, _)
join(parts, c) ==
    IF Len(parts) = 0 THEN ""
    ELSE IF Len(parts) = 1 THEN parts[1]
    ELSE parts[1] \o c \o join(Tail(parts), c)

\* [f for f in parts if f.strip()]
RECURSIVE nonblank(_)
nonblank(parts) ==
    IF Len(parts) = 0 THEN <<>>
    ELSE IF strip(parts[1]) # "" THEN <<parts[1]>> \o nonblank(Tail(parts))
    ELSE nonblank(Tail(parts))

Digits == {"0", "1", "2", "3", "4", "5", "6", "7", "8", "9"}

DigitValue(c) ==
    CASE c = "0" -> 0 [] c = "1" -> 1 [] c = "2" -> 2 [] c = "3" -> 3 [] c = "4" -> 4
      [] c = "5" -> 5 [] c = "6" -> 6 [] c = "7" -> 7 [] c = "8" -> 8 [] c = "9" -> 9

\* int(s) for a string of decimal digits
RECURSIVE int(_)
int(s) ==
    IF Len(s) = 0 THEN 0
    ELSE 10 * int(SubSeq(s, 1, Len(s) - 1)) + DigitValue(Char(s, Len(s)))

\* end of the run of digits that starts at position k (k - 1 when there is none)
RECURSIVE DigitsEnd(_, _)
DigitsEnd(s, k) ==
    IF k <= Len(s) /\ Char(s, k) \in Digits THEN DigitsEnd(s, k + 1) ELSE k - 1

\* end of the run of whitespace that starts at position k (k - 1 when there is none)
RECURSIVE SpaceEnd(_, _)
SpaceEnd(s, k) ==
    IF k <= Len(s) /\ Char(s, k) \in Whitespace THEN SpaceEnd(s, k + 1) ELSE k - 1

LowerChar(c) ==
    CASE c = "A" -> "a" [] c = "B" -> "b" [] c = "C" -> "c" [] c = "D" -> "d"
      [] c = "E" -> "e" [] c = "F" -> "f" [] c = "G" -> "g" [] c = "H" -> "h"
      [] c = "I" -> "i" [] c = "J" -> "j" [] c = "K" -> "k" [] c = "L" -> "l"
      [] c = "M" -> "m" [] c = "N" -> "n" [] c = "O" -> "o" [] c = "P" -> "p"
      [] c = "Q" -> "q" [] c = "R" -> "r" [] c = "S" -> "s" [] c = "T" -> "t"
      [] c = "U" -> "u" [] c = "V" -> "v" [] c = "W" -> "w" [] c = "X" -> "x"
      [] c = "Y" -> "y" [] c = "Z" -> "z" [] OTHER -> c

\* str.lower()
RECURSIVE lower(_)
lower(s) == IF Len(s) = 0 THEN "" ELSE LowerChar(Char(s, 1)) \o lower(From(s, 2))

----------------------------------------------------------------------------
(* run_git_command *)

\* what subprocess.run can do: complete with an exit status and a standard
\* output, or raise
Completed(rc, out) == [raised |-> FALSE, returncode |-> rc, stdout |-> out]

Raised == [raised |-> TRUE, returncode |-> 0, stdout |-> ""]

\* run_git_command without the exit status test
run_git_command_ignoring_status(res) ==
    IF res.raised THEN "" ELSE strip(res.stdout)

\* the value run_git_command hands to its caller for one outcome of subprocess.run
run_git_command(res) ==
    IF res.raised THEN ""
    ELSE IF res.returncode # 0 THEN ""
    ELSE strip(res.stdout)

\* the outcomes subprocess.run can have for a query that prints out on success:
\* it fails only while the run's budget of failures lasts
Failures(out) == {Completed(1, out), Completed(128, ""), Raised}

Outcomes(out) == {Completed(0, out)} \cup (IF budget > 0 THEN Failures(out) ELSE {})

Failure(res) == res.raised \/ res.returncode # 0

\* run_git_command as its own steps: the call, subprocess.run, the return
CommandLines == {"git rev-list --count a..b", "git diff --stat a..b", "git show abc"}

StandardOutputs ==
    {"", "\n", "3\n", "  3  ", "a.py\nsrc/b.rs\n", "\ta\tb\r\n", " \n\n", "x", "\n x y \n",
     " 1 file changed, 1 insertion(+)\n"}

RunIdle ==
    /\ cmd = "" /\ result = None /\ executions = 0 /\ rgc_return = None /\ rgc_pc = "idle"

RunInit ==
    /\ cmd \in CommandLines
    /\ result = None /\ executions = 0 /\ rgc_return = None
    /\ rgc_pc = "call"

\* subprocess.run(cmd, shell=True, ...) completes
SubprocessCompletes ==
    /\ rgc_pc = "call"
    /\ \E rc \in {0, 1, 128}, out \in StandardOutputs :
          result' = Some(Completed(rc, out))
    /\ executions' = executions + 1
    /\ rgc_pc' = "ran"
    /\ UNCHANGED <<cmd, rgc_return>>
    /\ UNCHANGED outsideRun

\* subprocess.run raises (executable missing, bad working directory)
SubprocessRaises ==
    /\ rgc_pc = "call"
    /\ result' = Some(Raised)
    /\ executions' = executions + 1
    /\ rgc_pc' = "except"
    /\ UNCHANGED <<cmd, rgc_return>>
    /\ UNCHANGED outsideRun

\* if result.returncode != 0: ... return ""
ReturnOnNonZero ==
    /\ rgc_pc = "ran"
    /\ result[1].returncode # 0
    /\ rgc_return' = Some(run_git_command(result[1]))
    /\ rgc_pc' = "returned"
    /\ UNCHANGED <<cmd, result, executions>>
    /\ UNCHANGED outsideRun

\* return result.stdout.strip()
ReturnStdout ==
    /\ rgc_pc = "ran"
    /\ result[1].returncode = 0
    /\ rgc_return' = Some(run_git_command(result[1]))
    /\ rgc_pc' = "returned"
    /\ UNCHANGED <<cmd, result, executions>>
    /\ UNCHANGED outsideRun

\* except Exception as e: ... return ""
ReturnOnException ==
    /\ rgc_pc = "except"
    /\ rgc_return' = Some(run_git_command(result[1]))
    /\ rgc_pc' = "returned"
    /\ UNCHANGED <<cmd, result, executions>>
    /\ UNCHANGED outsideRun

RunNext ==
    \/ SubprocessCompletes
    \/ SubprocessRaises
    \/ ReturnOnNonZero
    \/ ReturnStdout
    \/ ReturnOnException

----------------------------------------------------------------------------
(* get_commit_stats *)

\* the paths argument: None, one string or a list of strings
NoPaths == [kind |-> "none", value |-> <<>>]

OnePath(p) == [kind |-> "str", value |-> <<p>>]

PathList(ps) == [kind |-> "list", value |-> ps]

\* Python truth of the paths argument: None, "" and [] are false
PathsTruthy(p) ==
    CASE p.kind = "none" -> FALSE
      [] p.kind = "str" -> p.value[1] # ""
      [] p.kind = "list" -> Len(p.value) > 0

\* the clause with the paths of a list joined by commas
build_path_filter_joining_with_commas(p) ==
    IF PathsTruthy(p)
    THEN IF p.kind = "list" THEN " -- " \o join(p.value, ",") ELSE " -- " \o p.value[1]
    ELSE ""

\* lines 80-86: the path filter clause
build_path_filter(p) ==
    IF PathsTruthy(p)
    THEN IF p.kind = "list" THEN " -- " \o join(p.value, " ") ELSE " -- " \o p.value[1]
    ELSE ""

Range == start_commit \o ".." \o end_commit

\* re.search(r'(\d+)\s*<word>s?', s): group 1 of the leftmost match, None without a match
CountMatchAt(s, word, k) ==
    /\ Char(s, k) \in Digits
    /\ startswith(From(s, SpaceEnd(s, DigitsEnd(s, k) + 1) + 1), word)

re_search_count(s, word) ==
    LET K == {k \in 1..Len(s) : CountMatchAt(s, word, k)} IN
    IF K = {} THEN None
    ELSE LET k == CHOOSE x \in K : \A y \in K : x <= y IN Some(SubSeq(s, k, DigitsEnd(s, k)))

\* lines 100-117: lines added and removed from the last line of the --stat output
parse_diff_stats(text) ==
    LET zero == [lines_added |-> 0, lines_removed |-> 0] IN
    IF text = "" THEN zero
    ELSE
      LET lines_ == split(text, "\n")
          last_line == lines_[Len(lines_)]
      IN
      IF ~contains(last_line, "|") THEN zero
      ELSE
        LET parts == split(last_line, "|") IN
        IF Len(parts) < 2 THEN zero
        ELSE
          LET changes == strip(parts[2]) IN
          IF ~(contains(changes, "+") /\ contains(changes, "-")) THEN zero
          ELSE
            LET insertions == re_search_count(changes, "insertion")
                deletions == re_search_count(changes, "deletion")
            IN [lines_added |-> IF insertions # None THEN int(insertions[1]) ELSE 0,
                lines_removed |-> IF deletions # None THEN int(deletions[1]) ELSE 0]

\* the locals of get_commit_stats before the call
StatsLocalsInit ==
    /\ path_filter = "" /\ commit_count = "" /\ files_output = "" /\ files = <<>>
    /\ file_count = 0 /\ diff_stats = "" /\ lines_added = 0 /\ lines_removed = 0
    /\ stats = None

StatsIdle == StatsLocalsInit /\ gcs_pc = "idle"

\* lines 79-86
BuildPathFilter ==
    /\ gcs_pc = "filter"
    /\ path_filter' = build_path_filter(paths)
    /\ gcs_pc' = "count"
    /\ UNCHANGED <<commit_count, files_output, files, file_count, diff_stats,
                   lines_added, lines_removed, stats>>
    /\ UNCHANGED <<envVars, argVars>>
    /\ UNCHANGED outsideStats

\* line 89
CountCommits ==
    /\ gcs_pc = "count"
    /\ \E res \in Outcomes(repo.count) :
          /\ commit_count' = run_git_command(res)
          /\ failed' = IF Failure(res) THEN failed \cup {"count"} ELSE failed
          /\ budget' = IF Failure(res) THEN budget - 1 ELSE budget
    /\ issued' = Append(issued, "git rev-list --count " \o Range \o path_filter)
    /\ gcs_pc' = "names"
    /\ UNCHANGED <<path_filter, files_output, files, file_count, diff_stats,
                   lines_added, lines_removed, stats>>
    /\ UNCHANGED <<repo, argVars>>
    /\ UNCHANGED outsideStats

\* lines 92-94
ListFiles ==
    /\ gcs_pc = "names"
    /\ \E res \in Outcomes(repo.names) :
          /\ files_output' = run_git_command(res)
          /\ failed' = IF Failure(res) THEN failed \cup {"names"} ELSE failed
          /\ budget' = IF Failure(res) THEN budget - 1 ELSE budget
    /\ files' = nonblank(split(files_output', "\n"))
    /\ file_count' = Len(files')
    /\ issued' = Append(issued, "git diff --name-only " \o Range \o path_filter)
    /\ gcs_pc' = "stat"
    /\ UNCHANGED <<path_filter, commit_count, diff_stats, lines_added, lines_removed, stats>>
    /\ UNCHANGED <<repo, argVars>>
    /\ UNCHANGED outsideStats

\* lines 97-117
DiffStat ==
    /\ gcs_pc = "stat"
    /\ \E res \in Outcomes(repo.stat) :
          /\ diff_stats' = run_git_command(res)
          /\ failed' = IF Failure(res) THEN failed \cup {"stat"} ELSE failed
          /\ budget' = IF Failure(res) THEN budget - 1 ELSE budget
    /\ lines_added' = parse_diff_stats(diff_stats').lines_added
    /\ lines_removed' = parse_diff_stats(diff_stats').lines_removed
    /\ issued' = Append(issued, "git diff --stat " \o Range \o path_filter)
    /\ gcs_pc' = "return"
    /\ UNCHANGED <<path_filter, commit_count, files_output, files, file_count, stats>>
    /\ UNCHANGED <<repo, argVars>>
    /\ UNCHANGED outsideStats

\* lines 119-125
ReturnStats ==
    /\ gcs_pc = "return"
    /\ stats' = Some([commits |-> commit_count, files |-> file_count,
                      lines_added |-> lines_added, lines_removed |-> lines_removed,
                      file_list |-> files])
    /\ gcs_pc' = "done"
    /\ UNCHANGED <<path_filter, commit_count, files_output, files, file_count, diff_stats,
                   lines_added, lines_removed>>
    /\ UNCHANGED <<envVars, argVars>>
    /\ UNCHANGED outsideStats

get_commit_stats == BuildPathFilter \/ CountCommits \/ ListFiles \/ DiffStat \/ ReturnStats

----------------------------------------------------------------------------
(* get_commit_type, get_commits *)

\* get_commit_type without the lower-casing of the subject
get_commit_type_case_sensitive(message) ==
    IF startswith(message, "feat") THEN "feat"
    ELSE IF startswith(message, "fix") THEN "fix"
    ELSE IF startswith(message, "chore") THEN "chore"
    ELSE IF startswith(message, "docs") THEN "docs"
    ELSE IF startswith(message, "refactor") THEN "refactor"
    ELSE IF startswith(message, "test") THEN "test"
    ELSE IF startswith(message, "style") THEN "style"
    ELSE "other"

\* generate-html-review.py lines 127-145
get_commit_type(message) ==
    LET message_lower == lower(message) IN
    IF startswith(message_lower, "feat") THEN "feat"
    ELSE IF startswith(message_lower, "fix") THEN "fix"
    ELSE IF startswith(message_lower, "chore") THEN "chore"
    ELSE IF startswith(message_lower, "docs") THEN "docs"
    ELSE IF startswith(message_lower, "refactor") THEN "refactor"
    ELSE IF startswith(message_lower, "test") THEN "test"
    ELSE IF startswith(message_lower, "style") THEN "style"
    ELSE "other"

\* the dict get_commits appends for the fields of one log line; only the HTML
\* generator classifies the subject
commit_record(parts, gen) ==
    IF gen = "html"
    THEN [hash |-> parts[1], message |-> parts[2], author |-> parts[3], date |-> parts[4],
          type |-> get_commit_type(parts[2])]
    ELSE [hash |-> parts[1], message |-> parts[2], author |-> parts[3], date |-> parts[4]]

\* line.split('|'): a split at every pipe of the line
split_log_line_at_every_pipe(line) == split(line, "|")

\* line.split('|', 3)
split_log_line(line) == splitmax(line, "|", 3)

CommitsLocalsInit ==
    /\ gc_path_filter = "" /\ output = "" /\ log_lines = <<>> /\ gc_i = 0
    /\ commits = <<>> /\ commits_return = None

CommitsIdle == CommitsLocalsInit /\ gc_pc = "idle"

\* html lines 149-161, markdown lines 129-141: the path filter, the log query, the split
QueryLog ==
    /\ gc_pc = "query"
    /\ gc_path_filter' = build_path_filter(paths)
    /\ \E res \in Outcomes(repo.log) :
          /\ output' = run_git_command(res)
          /\ failed' = IF Failure(res) THEN failed \cup {"log"} ELSE failed
          /\ budget' = IF Failure(res) THEN budget - 1 ELSE budget
    /\ issued' = Append(issued, "git log --format='%H|%s|%an|%ad' --date=short "
                                  \o Range \o gc_path_filter')
    /\ log_lines' = split(output', "\n")
    /\ gc_i' = 1
    /\ commits' = <<>>
    /\ gc_pc' = "loop"
    /\ UNCHANGED <<generator, commits_return, repo, argVars>>
    /\ UNCHANGED outsideCommits

\* if line.strip(): is false
SkipBlankLine ==
    /\ gc_pc = "loop" /\ gc_i <= Len(log_lines)
    /\ strip(log_lines[gc_i]) = ""
    /\ gc_i' = gc_i + 1
    /\ UNCHANGED <<generator, gc_path_filter, output, log_lines, commits, commits_return,
                   gc_pc, envVars, argVars>>
    /\ UNCHANGED outsideCommits

\* if len(parts) >= 4: is false
SkipShortLine ==
    /\ gc_pc = "loop" /\ gc_i <= Len(log_lines)
    /\ strip(log_lines[gc_i]) # ""
    /\ Len(split_log_line(log_lines[gc_i])) < 4
    /\ gc_i' = gc_i + 1
    /\ UNCHANGED <<generator, gc_path_filter, output, log_lines, commits, commits_return,
                   gc_pc, envVars, argVars>>
    /\ UNCHANGED outsideCommits

\* commits.append({...})
AppendCommit ==
    /\ gc_pc = "loop" /\ gc_i <= Len(log_lines)
    /\ strip(log_lines[gc_i]) # ""
    /\ Len(split_log_line(log_lines[gc_i])) >= 4
    /\ commits' = Append(commits, commit_record(split_log_line(log_lines[gc_i]), generator))
    /\ gc_i' = gc_i + 1
    /\ UNCHANGED <<generator, gc_path_filter, output, log_lines, commits_return, gc_pc,
                   envVars, argVars>>
    /\ UNCHANGED outsideCommits

\* return commits
ReturnCommits ==
    /\ gc_pc = "loop" /\ gc_i > Len(log_lines)
    /\ commits_return' = Some(commits)
    /\ gc_pc' = "done"
    /\ UNCHANGED <<generator, gc_path_filter, output, log_lines, gc_i, commits,
                   envVars, argVars>>
    /\ UNCHANGED outsideCommits

get_commits == QueryLog \/ SkipBlankLine \/ SkipShortLine \/ AppendCommit \/ ReturnCommits

----------------------------------------------------------------------------
(* format_diff_as_html *)

EscapeChar(c) ==
    CASE c = "&" -> "&amp;" [] c = "<" -> "&lt;" [] c = ">" -> "&gt;"
      [] c = "\"" -> "&quot;" [] c = "'" -> "&#x27;" [] OTHER -> c

\* an escape that replaces the ampersand last, after the replacements that
\* put ampersands of their own into the text
RECURSIVE EscapeAmpersands(_)
EscapeAmpersands(s) ==
    IF Len(s) = 0 THEN ""
    ELSE (IF Char(s, 1) = "&" THEN "&amp;" ELSE Char(s, 1)) \o EscapeAmpersands(From(s, 2))

RECURSIVE EscapeAll(_)
EscapeAll(s) == IF Len(s) = 0 THEN "" ELSE EscapeChar(Char(s, 1)) \o EscapeAll(From(s, 2))

html_escape_ampersand_last(s) == EscapeAmpersands(EscapeAll(s))

\* html.escape(s)
RECURSIVE html_escape(_)
html_escape(s) == IF Len(s) = 0 THEN "" ELSE EscapeChar(Char(s, 1)) \o html_escape(From(s, 2))

\* f"{value}" of an optional string
Format(opt) == IF opt = None THEN "None" ELSE opt[1]

\* Python truth of an optional string: None and "" are false
Truthy(opt) == opt # None /\ opt[1] # ""

\* r'@@ -(\d+),?\d* \+(\d+),?\d* @@' matched at position k: the ends of its parts
HunkParts(line, k) ==
    LET p1 == k + 4
        e1 == DigitsEnd(line, p1)
        c1 == IF Char(line, e1 + 1) = "," THEN e1 + 1 ELSE e1
        f1 == DigitsEnd(line, c1 + 1)
        p2 == f1 + 3
        e2 == DigitsEnd(line, p2)
        c2 == IF Char(line, e2 + 1) = "," THEN e2 + 1 ELSE e2
        f2 == DigitsEnd(line, c2 + 1)
    IN [p1 |-> p1, e1 |-> e1, f1 |-> f1, p2 |-> p2, e2 |-> e2, f2 |-> f2]

HunkMatchAt(line, k) ==
    LET m == HunkParts(line, k) IN
    /\ startswith(From(line, k), "@@ -")
    /\ m.e1 >= m.p1
    /\ startswith(From(line, m.f1 + 1), " +")
    /\ m.e2 >= m.p2
    /\ startswith(From(line, m.f2 + 1), " @@")

\* re.search(r'@@ -(\d+),?\d* \+(\d+),?\d* @@', line): groups 1 and 2 of the
\* leftmost match as numbers, None without a match
hunk_match(line) ==
    LET K == {k \in 1..Len(line) : HunkMatchAt(line, k)} IN
    IF K = {} THEN None
    ELSE LET k == CHOOSE x \in K : \A y \in K : x <= y
             m == HunkParts(line, k)
         IN Some([old |-> int(SubSeq(line, m.p1, m.e1)), new |-> int(SubSeq(line, m.p2, m.e2))])

\* the counters set to the declared starting lines themselves
hunk_counters_not_decremented(groups) == [old |-> groups.old, new |-> groups.new]

\* lines 235-236: the counters a matching hunk header sets
hunk_counters(groups) == [old |-> groups.old - 1, new |-> groups.new - 1]

\* header_file without the test for the null device
header_file_keeping_dev_null(line) ==
    LET f0 == Some(strip(From(line, 5)))
        f2 == IF Truthy(f0) /\ startswith(f0[1], "b/") THEN Some(From(f0[1], 3)) ELSE f0
        f3 == IF Truthy(f2) /\ startswith(f2[1], "a/") THEN Some(From(f2[1], 3)) ELSE f2
    IN f3

\* lines 220-228: current_file after a line that starts with +++
header_file(line) ==
    LET f0 == Some(strip(From(line, 5)))
        f1 == IF f0 = Some("/dev/null") THEN None ELSE f0
        f2 == IF Truthy(f1) /\ startswith(f1[1], "b/") THEN Some(From(f1[1], 3)) ELSE f1
        f3 == IF Truthy(f2) /\ startswith(f2[1], "a/") THEN Some(From(f2[1], 3)) ELSE f2
    IN f3

\* a link that is written whatever the counter is
github_link_at_any_counter(url, revision, file, n) ==
    IF Truthy(file)
    THEN Format(url) \o "/blob/" \o revision \o "/" \o file[1] \o "#L" \o ToString(n)
    ELSE ""

\* a link whose anchor is the counter before the increment of its line
github_link_before_increment(url, revision, file, n) ==
    IF Truthy(file) /\ n > 0
    THEN Format(url) \o "/blob/" \o revision \o "/" \o file[1] \o "#L" \o ToString(n - 1)
    ELSE ""

\* lines 241-244, 249-252, 258-261: the link of a body line numbered n, "" for none
github_link(url, revision, file, n) ==
    IF Truthy(file) /\ n > 0
    THEN Format(url) \o "/blob/" \o revision \o "/" \o file[1] \o "#L" \o ToString(n)
    ELSE ""

\* the branches tested with the one-character markers first
line_kind_marker_first(line) ==
    IF startswith(line, "+") THEN "line added"
    ELSE IF startswith(line, "-") THEN "line removed"
    ELSE IF startswith(line, "+++") \/ startswith(line, "---") THEN "file-header"
    ELSE IF startswith(line, "@@") THEN "hunk-header"
    ELSE "line context"

\* the branch of the loop body a line takes (lines 217, 230, 238, 246, 254)
line_kind(line) ==
    IF startswith(line, "+++") \/ startswith(line, "---") THEN "file-header"
    ELSE IF startswith(line, "@@") THEN "hunk-header"
    ELSE IF startswith(line, "+") THEN "line added"
    ELSE IF startswith(line, "-") THEN "line removed"
    ELSE "line context"

\* one element of html_lines: the class of the div, the text of its line-number
\* span ("" for a header), its escaped text and the href of its link ("" for none)
HtmlLine(class, label, content, link) ==
    [class |-> class, label |-> label, content |-> content, link |-> link]

DiffLocalsInit ==
    /\ lines = <<>> /\ fd_i = 0 /\ current_file = None
    /\ line_numbers = [old |-> 0, new |-> 0] /\ html_lines = <<>> /\ fd_return = None

\* lines 208-209: if not diff_text: return ""
ReturnEmpty ==
    /\ fd_pc = "call"
    /\ diff_text = ""
    /\ fd_return' = Some(<<>>)
    /\ fd_pc' = "done"
    /\ UNCHANGED <<diff_text, commit_hash, repo_url, lines, fd_i, current_file, line_numbers,
                   html_lines>>
    /\ UNCHANGED outsideDiff

\* a start of the loop that keeps current_file and line_numbers as the call
\* before left them, as variables of the module would be
SplitDiff_keeping_state ==
    /\ fd_pc = "call"
    /\ diff_text # ""
    /\ lines' = split(diff_text, "\n")
    /\ html_lines' = <<>>
    /\ fd_i' = 1
    /\ fd_pc' = "loop"
    /\ UNCHANGED <<diff_text, commit_hash, repo_url, current_file, line_numbers, fd_return>>
    /\ UNCHANGED outsideDiff

\* lines 211-214
SplitDiff ==
    /\ fd_pc = "call"
    /\ diff_text # ""
    /\ lines' = split(diff_text, "\n")
    /\ html_lines' = <<>>
    /\ current_file' = None
    /\ line_numbers' = [old |-> 0, new |-> 0]
    /\ fd_i' = 1
    /\ fd_pc' = "loop"
    /\ UNCHANGED <<diff_text, commit_hash, repo_url, fd_return>>
    /\ UNCHANGED outsideDiff

InLoop(kind) == fd_pc = "loop" /\ fd_i <= Len(lines) /\ line_kind(lines[fd_i]) = kind

\* lines 217-229
FileHeader ==
    /\ InLoop("file-header")
    /\ LET line == lines[fd_i] IN
       /\ current_file' = IF startswith(line, "+++") THEN header_file(line) ELSE current_file
       /\ html_lines' = Append(html_lines, HtmlLine("file-header", "", html_escape(line), ""))
    /\ fd_i' = fd_i + 1
    /\ UNCHANGED <<diff_text, commit_hash, repo_url, lines, line_numbers, fd_return, fd_pc>>
    /\ UNCHANGED outsideDiff

\* a hunk header branch that sets the counters to 0 when the pattern does not match
HunkHeader_resetting_on_mismatch ==
    /\ InLoop("hunk-header")
    /\ LET line == lines[fd_i]
           match == hunk_match(line)
       IN
       /\ line_numbers' = IF match # None THEN hunk_counters(match[1])
                          ELSE [old |-> 0, new |-> 0]
       /\ html_lines' = Append(html_lines, HtmlLine("hunk-header", "", html_escape(line), ""))
    /\ fd_i' = fd_i + 1
    /\ UNCHANGED <<diff_text, commit_hash, repo_url, lines, current_file, fd_return, fd_pc>>
    /\ UNCHANGED outsideDiff

\* lines 230-237
HunkHeader ==
    /\ InLoop("hunk-header")
    /\ LET line == lines[fd_i]
           match == hunk_match(line)
       IN
       /\ line_numbers' = IF match # None THEN hunk_counters(match[1]) ELSE line_numbers
       /\ html_lines' = Append(html_lines, HtmlLine("hunk-header", "", html_escape(line), ""))
    /\ fd_i' = fd_i + 1
    /\ UNCHANGED <<diff_text, commit_hash, repo_url, lines, current_file, fd_return, fd_pc>>
    /\ UNCHANGED outsideDiff

\* lines 238-245
AddedLine ==
    /\ InLoop("line added")
    /\ LET line == lines[fd_i]
           n == line_numbers.new + 1
       IN
       /\ line_numbers' = [line_numbers EXCEPT !.new = n]
       /\ html_lines' = Append(html_lines,
              HtmlLine("line added", "+" \o ToString(n), html_escape(From(line, 2)),
                       github_link(repo_url, commit_hash, current_file, n)))
    /\ fd_i' = fd_i + 1
    /\ UNCHANGED <<diff_text, commit_hash, repo_url, lines, current_file, fd_return, fd_pc>>
    /\ UNCHANGED outsideDiff

\* lines 246-253
RemovedLine ==
    /\ InLoop("line removed")
    /\ LET line == lines[fd_i]
           n == line_numbers.old + 1
       IN
       /\ line_numbers' = [line_numbers EXCEPT !.old = n]
       /\ html_lines' = Append(html_lines,
              HtmlLine("line removed", "-" \o ToString(n), html_escape(From(line, 2)),
                       github_link(repo_url, commit_hash \o "~1", current_file, n)))
    /\ fd_i' = fd_i + 1
    /\ UNCHANGED <<diff_text, commit_hash, repo_url, lines, current_file, fd_return, fd_pc>>
    /\ UNCHANGED outsideDiff

\* lines 254-262
ContextLine ==
    /\ InLoop("line context")
    /\ LET line == lines[fd_i]
           o == line_numbers.old + 1
           n == line_numbers.new + 1
       IN
       /\ line_numbers' = [old |-> o, new |-> n]
       /\ html_lines' = Append(html_lines,
              HtmlLine("line context", ToString(n), html_escape(line),
                       github_link(repo_url, commit_hash, current_file, n)))
    /\ fd_i' = fd_i + 1
    /\ UNCHANGED <<diff_text, commit_hash, repo_url, lines, current_file, fd_return, fd_pc>>
    /\ UNCHANGED outsideDiff

\* line 264
ReturnHtml ==
    /\ fd_pc = "loop" /\ fd_i > Len(lines)
    /\ fd_return' = Some(html_lines)
    /\ fd_pc' = "done"
    /\ UNCHANGED <<diff_text, commit_hash, repo_url, lines, fd_i, current_file, line_numbers,
                   html_lines>>
    /\ UNCHANGED outsideDiff

format_diff_as_html ==
    \/ ReturnEmpty
    \/ SplitDiff
    \/ FileHeader
    \/ HunkHeader
    \/ AddedLine
    \/ RemovedLine
    \/ ContextLine
    \/ ReturnHtml

\* lines 216-262 as a function: the records of the lines from position i on,
\* for the values current_file and line_numbers have before line i
RECURSIVE render_lines(_, _, _, _, _, _)
render_lines(ls, i, file, nums, hash, url) ==
    IF i > Len(ls) THEN <<>>
    ELSE
    LET line == ls[i]
        kind == line_kind(line)
        match == hunk_match(line)
        file2 == IF kind = "file-header" /\ startswith(line, "+++") THEN header_file(line)
                 ELSE file
        nums2 == CASE kind = "file-header" -> nums
                   [] kind = "hunk-header" ->
                        IF match # None THEN hunk_counters(match[1]) ELSE nums
                   [] kind = "line added" -> [nums EXCEPT !.new = @ + 1]
                   [] kind = "line removed" -> [nums EXCEPT !.old = @ + 1]
                   [] OTHER -> [old |-> nums.old + 1, new |-> nums.new + 1]
        record == CASE kind = "file-header" -> HtmlLine(kind, "", html_escape(line), "")
                    [] kind = "hunk-header" -> HtmlLine(kind, "", html_escape(line), "")
                    [] kind = "line added" ->
                         HtmlLine(kind, "+" \o ToString(nums2.new), html_escape(From(line, 2)),
                                  github_link(url, hash, file, nums2.new))
                    [] kind = "line removed" ->
                         HtmlLine(kind, "-" \o ToString(nums2.old), html_escape(From(line, 2)),
                                  github_link(url, hash \o "~1", file, nums2.old))
                    [] OTHER ->
                         HtmlLine(kind, ToString(nums2.new), html_escape(line),
                                  github_link(url, hash, file, nums2.new))
    IN <<record>> \o render_lines(ls, i + 1, file2, nums2, hash, url)

\* lines 206-264 as a function of the three arguments
render(text, hash, url) ==
    IF text = "" THEN <<>>
    ELSE render_lines(split(text, "\n"), 1, None, [old |-> 0, new |-> 0], hash, url)

----------------------------------------------------------------------------
(* get_commit_details, generate_html_report, generate_markdown_report *)

\* html lines 175-204, markdown lines 153-182: the dict of one commit, from the
\* outcomes of its five queries
get_commit_details(ra, rd, rm, rf, rx) ==
    [author |-> run_git_command(ra),
     date |-> run_git_command(rd),
     message |-> run_git_command(rm),
     files |-> nonblank(split(run_git_command(rf), "\n")),
     diff |-> run_git_command(rx)]

\* the command lines of get_commit_details, in the order it issues them
detail_commands(hash, filter) ==
    <<"git show --no-patch --format='%an <%ae>' " \o hash,
      "git show --no-patch --format='%ad' --date=short " \o hash,
      "git show --no-patch --format='%s' " \o hash,
      "git show --name-only --format='' " \o hash \o filter,
      "git show " \o hash \o filter>>

DetailQueries == <<"author", "date", "message", "files", "diff">>

RECURSIVE escape_all(_)
escape_all(ss) ==
    IF Len(ss) = 0 THEN <<>> ELSE <<html_escape(ss[1])>> \o escape_all(Tail(ss))

\* html lines 817-838, markdown lines 246-249: the four numbers of the summary
summary_of(st) ==
    [commits |-> st.commits, files |-> st.files, lines_added |-> st.lines_added,
     lines_removed |-> st.lines_removed]

\* html lines 858-870, markdown lines 255-256: one row of the commit table
table_row(commit, gen) ==
    IF gen = "html"
    THEN [hash |-> commit.hash, badge |-> commit.type, message |-> html_escape(commit.message),
          author |-> html_escape(commit.author), date |-> commit.date]
    ELSE [hash |-> commit.hash, message |-> commit.message, author |-> commit.author,
          date |-> commit.date]

\* html lines 897-936, markdown lines 270-287: the detail block of one commit;
\* rendered is what format_diff_as_html returned, None when it was not called
detail_block(commit, det, rendered, gen) ==
    IF gen = "html"
    THEN [hash |-> commit.hash, author |-> html_escape(det.author), date |-> det.date,
          message |-> html_escape(det.message), files |-> escape_all(det.files),
          diff |-> rendered]
    ELSE [hash |-> commit.hash, author |-> det.author, date |-> det.date,
          message |-> det.message, files |-> det.files,
          diff |-> IF det.diff # "" THEN Some(det.diff) ELSE None]

NoReport == [summary |-> None, rows |-> <<>>, file_list |-> None, blocks |-> <<>>]

\* html lines 266-310, markdown lines 184-228: up to the call of get_commit_stats
BeginReport ==
    /\ report_pc = "start"
    /\ report_pc' = "stats"
    /\ gcs_pc' = "filter"
    /\ UNCHANGED <<path_filter, commit_count, files_output, files, file_count, diff_stats,
                   lines_added, lines_removed, stats>>
    /\ UNCHANGED <<ci, details, report>>
    /\ UNCHANGED <<envVars, runVars, argVars, commitsVars, diffVars>>
    /\ UNCHANGED mainVars

\* html line 311, markdown line 229: the call of get_commits
CallGetCommits ==
    /\ report_pc = "stats" /\ gcs_pc = "done"
    /\ report_pc' = "commits"
    /\ gc_pc' = "query"
    /\ UNCHANGED <<generator, gc_path_filter, output, log_lines, gc_i, commits,
                   commits_return>>
    /\ UNCHANGED <<ci, details, report>>
    /\ UNCHANGED <<envVars, runVars, argVars, statsVars, diffVars>>
    /\ UNCHANGED mainVars

\* html lines 269-271 and 803, markdown lines 187-189 and 240: the import of
\* datetime inside the test of output_file makes the name a local of the
\* generator, bound only when no output file was given; with an output file
\* the header's datetime.now() raises UnboundLocalError, after the file was
\* opened and before the summary
RaiseUnboundLocalError ==
    /\ report_pc = "commits" /\ gc_pc = "done"
    /\ output_file # None
    /\ report_pc' = "raised"
    /\ UNCHANGED <<ci, details, report>>
    /\ UNCHANGED <<envVars, runVars, argVars, statsVars, commitsVars, diffVars>>
    /\ UNCHANGED mainVars

\* html lines 313-843, markdown lines 231-249: the file is opened; header and summary
WriteSummary ==
    /\ report_pc = "commits" /\ gc_pc = "done"
    /\ output_file = None
    /\ report' = [report EXCEPT !.summary = Some(summary_of(stats[1]))]
    /\ ci' = 1
    /\ report_pc' = "table"
    /\ UNCHANGED details
    /\ UNCHANGED <<envVars, runVars, argVars, statsVars, commitsVars, diffVars>>
    /\ UNCHANGED mainVars

\* html lines 858-870, markdown lines 255-256
WriteRow ==
    /\ report_pc = "table" /\ ci <= Len(commits_return[1])
    /\ report' = [report EXCEPT !.rows = Append(@, table_row(commits_return[1][ci], generator))]
    /\ ci' = ci + 1
    /\ UNCHANGED <<details, report_pc>>
    /\ UNCHANGED <<envVars, runVars, argVars, statsVars, commitsVars, diffVars>>
    /\ UNCHANGED mainVars

\* html lines 872-891, markdown lines 257-266
WriteFileList ==
    /\ report_pc = "table" /\ ci > Len(commits_return[1])
    /\ report' = [report EXCEPT !.file_list =
                      Some(IF generator = "html" THEN escape_all(stats[1].file_list)
                           ELSE stats[1].file_list)]
    /\ ci' = 1
    /\ report_pc' = "details"
    /\ UNCHANGED details
    /\ UNCHANGED <<envVars, runVars, argVars, statsVars, commitsVars, diffVars>>
    /\ UNCHANGED mainVars

NumFailures(rs) == Cardinality({k \in 1..Len(rs) : Failure(rs[k])})

\* html lines 893-894 and 926-930, markdown lines 267-268: get_commit_details
\* for the commit at hand and, in the HTML generator when there is a diff,
\* the call of format_diff_as_html
FetchDetails ==
    /\ report_pc = "details" /\ ci <= Len(commits_return[1])
    /\ LET hash == commits_return[1][ci].hash
           shown == IF hash \in DOMAIN repo.show THEN repo.show[hash]
                    ELSE [author |-> "", date |-> "", message |-> "", files |-> "", diff |-> ""]
       IN
       /\ \E ra \in Outcomes(shown.author), rd \in Outcomes(shown.date),
             rm \in Outcomes(shown.message), rf \in Outcomes(shown.files),
             rx \in Outcomes(shown.diff) :
             LET rs == <<ra, rd, rm, rf, rx>>
                 det == get_commit_details(ra, rd, rm, rf, rx)
             IN
             /\ NumFailures(rs) <= budget
             /\ budget' = budget - NumFailures(rs)
             /\ failed' = failed \cup
                    {DetailQueries[k] \o ":" \o hash : k \in {j \in 1..5 : Failure(rs[j])}}
             /\ details' = Some(det)
             /\ IF generator = "html" /\ det.diff # ""
                THEN /\ diff_text' = det.diff
                     /\ commit_hash' = hash
                     /\ fd_return' = None
                     /\ fd_pc' = "call"
                     /\ report_pc' = "render"
                ELSE /\ UNCHANGED <<diff_text, commit_hash, fd_return, fd_pc>>
                     /\ report_pc' = "block"
       /\ issued' = issued \o detail_commands(hash, build_path_filter(paths))
    /\ UNCHANGED <<repo_url, lines, fd_i, current_file, line_numbers, html_lines>>
    /\ UNCHANGED <<ci, report, repo>>
    /\ UNCHANGED <<runVars, argVars, statsVars, commitsVars>>
    /\ UNCHANGED mainVars

\* a detail loop that writes no block for a commit one of whose queries failed
WriteBlock_skipping_failed ==
    /\ \/ report_pc = "block"
       \/ report_pc = "render" /\ fd_pc = "done"
    /\ report' = IF \E q \in failed : contains(q, ":" \o commits_return[1][ci].hash)
                 THEN report
                 ELSE [report EXCEPT !.blocks =
                      Append(@, detail_block(commits_return[1][ci], details[1],
                                             IF report_pc = "render" THEN fd_return ELSE None,
                                             generator))]
    /\ ci' = ci + 1
    /\ report_pc' = "details"
    /\ fd_pc' = "idle"
    /\ UNCHANGED details
    /\ UNCHANGED <<diff_text, commit_hash, repo_url, lines, fd_i, current_file, line_numbers,
                   html_lines, fd_return>>
    /\ UNCHANGED <<envVars, runVars, argVars, statsVars, commitsVars>>
    /\ UNCHANGED mainVars

\* html lines 897-936, markdown lines 270-287
WriteBlock ==
    /\ \/ report_pc = "block"
       \/ report_pc = "render" /\ fd_pc = "done"
    /\ report' = [report EXCEPT !.blocks =
                      Append(@, detail_block(commits_return[1][ci], details[1],
                                             IF report_pc = "render" THEN fd_return ELSE None,
                                             generator))]
    /\ ci' = ci + 1
    /\ report_pc' = "details"
    /\ fd_pc' = "idle"
    /\ UNCHANGED details
    /\ UNCHANGED <<diff_text, commit_hash, repo_url, lines, fd_i, current_file, line_numbers,
                   html_lines, fd_return>>
    /\ UNCHANGED <<envVars, runVars, argVars, statsVars, commitsVars>>
    /\ UNCHANGED mainVars

\* html lines 938-1006, markdown lines 289-290: the file is closed, the path returned
FinishReport ==
    /\ report_pc = "details" /\ ci > Len(commits_return[1])
    /\ report_pc' = "done"
    /\ UNCHANGED <<ci, details, report>>
    /\ UNCHANGED <<envVars, runVars, argVars, statsVars, commitsVars, diffVars>>
    /\ UNCHANGED mainVars

----------------------------------------------------------------------------
(* main, get_cached_repo *)

\* what the steps of main and get_cached_repo leave alone
outsideMain == <<envVars, runVars, argVars, statsVars, commitsVars, diffVars>>

\* s.replace(old, ''), old not empty
RECURSIVE remove_all(_, _)
remove_all(s, old) ==
    IF Len(s) = 0 THEN ""
    ELSE IF startswith(s, old) THEN remove_all(From(s, Len(old) + 1), old)
    ELSE Char(s, 1) \o remove_all(From(s, 2), old)

\* lines 33-37: the path of the cached clone of a repository URL that holds a slash
cached_repo_path(url, cache_dir) ==
    LET parts == split(url, "/")
        last == remove_all(parts[Len(parts)], ".git")
        repo_name == IF last = "" THEN parts[Len(parts) - 1] ELSE last
    IN cache_dir \o "/" \o repo_name

CacheDir == ".repo-cache"

\* the ways subprocess.run(..., check=True) ends: exit status 0, the
\* CalledProcessError of another exit status, or an error starting git
GitRuns == {"ok", "CalledProcessError", "OSError"}

MainIdle ==
    /\ args = [repo |-> None, type |-> "full"] /\ cache = "absent" /\ repo_dir = None
    /\ printed = <<>> /\ exit_status = None /\ main_pc = "idle"

\* html lines 1009-1019, markdown lines 361-372: --repo is a required argument
ParseArgs ==
    /\ main_pc = "parse"
    /\ IF args.repo = None
       THEN /\ printed' = Append(printed, "error: the following arguments are required: --repo")
            /\ exit_status' = Some(2)
            /\ main_pc' = "exited"
       ELSE /\ main_pc' = "check"
            /\ UNCHANGED <<printed, exit_status>>
    /\ UNCHANGED <<args, cache, repo_dir>>
    /\ UNCHANGED <<outsideMain, reportVars>>

\* html lines 1022-1026, markdown lines 375-379
CheckRepo ==
    /\ main_pc = "check"
    /\ IF args.repo[1] = ""
       THEN /\ printed' = Append(printed, "Error: Repository URL is required. Use --repo parameter.")
            /\ exit_status' = Some(1)
            /\ main_pc' = "exited"
       ELSE /\ printed' = Append(printed, "Using external repository: " \o args.repo[1])
            /\ main_pc' = "acquire"
            /\ UNCHANGED exit_status
    /\ UNCHANGED <<args, cache, repo_dir>>
    /\ UNCHANGED <<outsideMain, reportVars>>

\* get_cached_repo, lines 39-50: the cached clone exists and is updated
UpdateCache ==
    /\ main_pc = "acquire" /\ cache = "present"
    /\ \E pull \in GitRuns :
          CASE pull = "ok" ->
                 /\ printed' = printed \o <<"Using cached repository", "Updating repository...",
                                            "Repository updated">>
                 /\ repo_dir' = Some(cached_repo_path(args.repo[1], CacheDir))
                 /\ main_pc' = "acquired"
                 /\ UNCHANGED exit_status
            [] pull = "CalledProcessError" ->
                 /\ printed' = printed \o <<"Using cached repository", "Updating repository...",
                                            "Warning: Failed to update repository",
                                            "Continuing with existing cache...">>
                 /\ repo_dir' = Some(cached_repo_path(args.repo[1], CacheDir))
                 /\ main_pc' = "acquired"
                 /\ UNCHANGED exit_status
            [] pull = "OSError" ->
                 /\ printed' = printed \o <<"Using cached repository", "Updating repository...",
                                            "Traceback: OSError">>
                 /\ exit_status' = Some(1)
                 /\ main_pc' = "exited"
                 /\ UNCHANGED repo_dir
    /\ UNCHANGED <<args, cache>>
    /\ UNCHANGED <<outsideMain, reportVars>>

\* get_cached_repo, lines 51-59: there is no cached clone and the repository is cloned
CloneToCache ==
    /\ main_pc = "acquire" /\ cache = "absent"
    /\ \E clone \in GitRuns :
          CASE clone = "ok" ->
                 /\ printed' = printed \o <<"Cloning repository to cache", "Repository cached">>
                 /\ cache' = "present"
                 /\ repo_dir' = Some(cached_repo_path(args.repo[1], CacheDir))
                 /\ main_pc' = "acquired"
                 /\ UNCHANGED exit_status
            [] clone = "CalledProcessError" ->
                 /\ printed' = printed \o <<"Cloning repository to cache",
                                            "Failed to clone repository">>
                 /\ repo_dir' = None
                 /\ main_pc' = "acquired"
                 /\ UNCHANGED <<cache, exit_status>>
            [] clone = "OSError" ->
                 /\ printed' = printed \o <<"Cloning repository to cache", "Traceback: OSError">>
                 /\ exit_status' = Some(1)
                 /\ main_pc' = "exited"
                 /\ UNCHANGED <<cache, repo_dir>>
    /\ UNCHANGED args
    /\ UNCHANGED <<outsideMain, reportVars>>

\* the test of repo_dir without its sys.exit: the diagnostic is printed and
\* main goes on to the report generator
FailAcquire_without_exit ==
    /\ main_pc = "acquired" /\ ~Truthy(repo_dir)
    /\ printed' = Append(printed, "Failed to get cached repository")
    /\ report_pc' = "start"
    /\ main_pc' = "generate"
    /\ UNCHANGED <<args, cache, repo_dir, exit_status>>
    /\ UNCHANGED <<ci, details, report>>
    /\ UNCHANGED outsideMain

\* html lines 1029-1031, markdown lines 381-383: if not repo_dir
FailAcquire ==
    /\ main_pc = "acquired" /\ ~Truthy(repo_dir)
    /\ printed' = Append(printed, "Failed to get cached repository")
    /\ exit_status' = Some(1)
    /\ main_pc' = "exited"
    /\ UNCHANGED <<args, cache, repo_dir>>
    /\ UNCHANGED <<outsideMain, reportVars>>

\* html lines 1033-1034, markdown lines 385-387: the call of the report generator
CallGenerator ==
    /\ main_pc = "acquired" /\ Truthy(repo_dir)
    /\ args.type = "full"
    /\ report_pc' = "start"
    /\ main_pc' = "generate"
    /\ UNCHANGED <<args, cache, repo_dir, printed, exit_status>>
    /\ UNCHANGED <<ci, details, report>>
    /\ UNCHANGED outsideMain

\* markdown lines 388-389 and 292: generate_summary_report takes four
\* arguments and is called with five; the TypeError of the call ends the process
CallSummary ==
    /\ main_pc = "acquired" /\ Truthy(repo_dir)
    /\ args.type = "summary"
    /\ printed' = Append(printed, "Traceback: TypeError: generate_summary_report() takes "
                                   \o "from 2 to 4 positional arguments but 5 were given")
    /\ exit_status' = Some(1)
    /\ main_pc' = "exited"
    /\ UNCHANGED <<args, cache, repo_dir>>
    /\ UNCHANGED <<outsideMain, reportVars>>

\* the report generator raised: the exception leaves main, the interpreter
\* prints the traceback and the process exits with status 1
ExitOnError ==
    /\ main_pc = "generate" /\ report_pc = "raised"
    /\ printed' = Append(printed, "Traceback: UnboundLocalError")
    /\ exit_status' = Some(1)
    /\ main_pc' = "exited"
    /\ UNCHANGED <<args, cache, repo_dir>>
    /\ UNCHANGED <<outsideMain, reportVars>>

\* the report generator returned: main returns and the process exits with status 0
ReturnFromMain ==
    /\ main_pc = "generate" /\ report_pc = "done"
    /\ exit_status' = Some(0)
    /\ main_pc' = "exited"
    /\ UNCHANGED <<args, cache, repo_dir, printed>>
    /\ UNCHANGED <<outsideMain, reportVars>>

----------------------------------------------------------------------------
(* The repository: what git prints *)

\* bound on the number of lines of a log output
MaxLogLines == 2

\* the queries get_commit_stats and get_commits issue, each of which may fail
StatsQueries == 3

CommitsQueries == 1

\* all sequences over S of length at most n
SeqUpTo(S, n) == UNION {[1..k -> S] : k \in 0..n}

\* git log --format='%H|%s|%an|%ad' --date=short: one line per commit
LogLine(c) == c.hash \o "|" \o c.subject \o "|" \o c.author \o "|" \o c.date

Commit(h, s, a, d) == [hash |-> h, subject |-> s, author |-> a, date |-> d]

CommitPool ==
    {Commit("a1b2c3d", "Fixes: null pointer", "Ann Lee", "2024-05-01"),
     Commit("b2c3d4e", "feature flag", "Bo", "2024-05-02"),
     Commit("c3d4e5f", "refactor a|b parser", "Cy", "2024-05-03"),
     Commit("d4e5f6a", "Update README", "Di", "2024-05-04"),
     Commit("e5f6a7b", "CHORE: bump deps", "Ed", "2024-05-05"),
     Commit("f6a7b8c", "docs", "Flo", "2024-05-06"),
     Commit("a7b8c9d", "Testing | more", "Gus", "2024-05-07"),
     Commit("b8c9d0e", "style: fmt", "Hal", "2024-05-08"),
     Commit("c9d0e1f", " fix leading space", "Ivy", "2024-05-09")}

\* lines git log does not print, which get_commits defends against
JunkLines == {"", "   ", "deadbeef|only two fields", "no separator", "a|b|c"}

LogLinePool == {LogLine(c) : c \in CommitPool} \cup JunkLines

\* the commits whose lines a log output holds, in order
RECURSIVE CommitsOf(_)
CommitsOf(ls) ==
    IF Len(ls) = 0 THEN <<>>
    ELSE (IF \E c \in CommitPool : LogLine(c) = ls[1]
          THEN <<CHOOSE c \in CommitPool : LogLine(c) = ls[1]>>
          ELSE <<>>) \o CommitsOf(Tail(ls))

\* the text of an output of several lines, as git prints it
Text(ls) == IF Len(ls) = 0 THEN "" ELSE join(ls, "\n") \o "\n"

\* git diff --stat: the summary line, a clause being left out when its count is 0
Plural(n, word) == ToString(n) \o " " \o word \o (IF n = 1 THEN "" ELSE "s")

SummaryLine(n, a, d) ==
    Plural(n, "file") \o " changed"
      \o (IF a > 0 THEN ", " \o Plural(a, "insertion") \o "(+)" ELSE "")
      \o (IF d > 0 THEN ", " \o Plural(d, "deletion") \o "(-)" ELSE "")

StatCounts == {0, 1, 4, 12}

FileCounts == {1, 3}

StatFileLine == " src/a.py | 16 ++++++++----"

StatTexts ==
    {""} \cup
    {Text(<<StatFileLine, " " \o SummaryLine(n, a, d)>>) :
        n \in FileCounts, a \in StatCounts, d \in StatCounts} \cup
    {Text(<<StatFileLine>>),
     Text(<<" x | 12 insertions(+), 4 deletions(-)">>),
     Text(<<" x | 7 insertions(+)">>)}

CountTexts == {"", "0\n", "3\n"}

NamesTexts == {"", Text(<<"src/a.py">>), Text(<<"src/a.py", "", "docs/b c.md">>)}

PathArgs == {NoPaths, OnePath("rs/nns"), OnePath(""), PathList(<<>>),
             PathList(<<"rs/nns", "rs/sns">>)}

NoRepo == [commits |-> <<>>, count |-> "", names |-> "", stat |-> "", log |-> "", show |-> <<>>]

EnvIdle == repo = NoRepo /\ issued = <<>> /\ failed = {} /\ budget = 0

ReportIdle ==
    /\ ci = 0 /\ details = None /\ report_pc = "idle" /\ report = NoReport
    /\ MainIdle

\* bounds of a run of a report generator: the commits of the range, and the
\* queries that fail
MaxCommits == 2

MaxFailures == 1

\* the commits of the repository a report is made of, with what git show prints
ShownCommit(h, s, a, e, d, fs, x) ==
    [hash |-> h, subject |-> s, author |-> a, email |-> e, date |-> d, files |-> fs, diff |-> x]

ReportCommits ==
    {ShownCommit("a1b2c3d", "Fixes: null pointer", "Ann Lee", "ann@x.org", "2024-05-01",
                 <<"src/foo.rs">>,
                 "commit a1b2c3d\n+++ b/src/foo.rs\n@@ -3 +4 @@\n+a<b\n"),
     ShownCommit("b2c3d4e", "feature flag", "Bo", "bo@x.org", "2024-05-02",
                 <<"old.txt">>,
                 "commit b2c3d4e\n+++ /dev/null\n-c&d\n")}

RECURSIVE MapSeq(_, _)
MapSeq(Op(_), ss) == IF Len(ss) = 0 THEN <<>> ELSE <<Op(ss[1])>> \o MapSeq(Op, Tail(ss))

AsCommit(c) == Commit(c.hash, c.subject, c.author, c.date)

LogLineOf(c) == LogLine(AsCommit(c))

FilesOf(c) == c.files[1]

\* what git prints about a range whose commits are history, newest first;
\* stray is the lines of the log output that are no commit's
StrayLines == {<<>>, <<"no separator">>}

RepoOf(history, stray) ==
    [commits |-> MapSeq(AsCommit, history),
     count |-> ToString(Len(history)) \o "\n",
     names |-> Text(MapSeq(FilesOf, history)),
     stat |-> IF Len(history) = 0 THEN ""
              ELSE Text(<<StatFileLine, " " \o SummaryLine(Len(history), 12, 4)>>),
     log |-> Text(MapSeq(LogLineOf, history) \o stray),
     show |-> [h \in {history[k].hash : k \in 1..Len(history)} |->
                 LET c == CHOOSE c \in ReportCommits : c.hash = h IN
                 [author |-> c.author \o " <" \o c.email \o ">\n",
                  date |-> c.date \o "\n",
                  message |-> c.subject \o "\n",
                  files |-> Text(c.files),
                  diff |-> c.diff]]]

\* the output file of a run: None (the generator derives a name) or the name
\* given with --output
OutputFiles == {None, Some("review.out")}

ArgsIdle == start_commit = "" /\ end_commit = "" /\ paths = NoPaths /\ output_file = None

DiffIdle ==
    /\ diff_text = "" /\ commit_hash = "" /\ repo_url = None
    /\ DiffLocalsInit /\ fd_pc = "idle"

\* bound on the number of lines of a diff text
MaxDiffLines == 3

\* bound on the number of lines of a diff text made of hunks only
MaxHunkLines == 4

\* the lines of a unified diff: headers of a changed file, of a file under a
\* directory named a, and of a deleted file; hunk headers with and without
\* counts; an added, a removed and a context line
DiffLinePool ==
    {"+++ b/src/foo.rs", "+++ b/a/x.rs", "+++ /dev/null",
     "@@ -10,5 +20,7 @@", "@@ -3 +4 @@",
     "+a<b", "-c&d", " e"}

\* the header and the lines of the hunks of one file
HunkLinePool == {"+++ b/src/foo.rs", "@@ -10,5 +20,7 @@", "@@ -3 +4 @@", "+a<b", "-c&d", " e"}

----------------------------------------------------------------------------
(* The specifications *)

\* one call of run_git_command
InitRun == RunInit /\ EnvIdle /\ ArgsIdle /\ StatsIdle /\ CommitsIdle /\ DiffIdle
           /\ ReportIdle /\ generator = "html"

SpecRun == InitRun /\ [][RunNext]_vars

\* one call of get_commit_stats on a repository that prints any of the texts
InitStats ==
    /\ repo \in {[NoRepo EXCEPT !.count = c, !.names = n, !.stat = st] :
                    c \in CountTexts, n \in NamesTexts, st \in StatTexts}
    /\ issued = <<>> /\ failed = {} /\ budget = StatsQueries
    /\ start_commit = "v1" /\ end_commit \in {"v2", "HEAD"} /\ paths \in PathArgs
    /\ output_file = None
    /\ StatsLocalsInit /\ gcs_pc = "filter"
    /\ RunIdle /\ CommitsIdle /\ DiffIdle /\ ReportIdle /\ generator = "html"

SpecStats == InitStats /\ [][get_commit_stats]_vars

\* one call of get_commits, of either generator, on a log output of up to
\* MaxLogLines lines
InitCommits ==
    /\ \E ls \in SeqUpTo(LogLinePool, MaxLogLines) :
          repo = [NoRepo EXCEPT !.commits = CommitsOf(ls), !.log = Text(ls)]
    /\ issued = <<>> /\ failed = {} /\ budget = CommitsQueries
    /\ start_commit = "v1" /\ end_commit = "v2" /\ paths \in {NoPaths, OnePath("rs/nns")}
    /\ output_file = None
    /\ generator \in {"html", "markdown"}
    /\ CommitsLocalsInit /\ gc_pc = "query"
    /\ RunIdle /\ StatsIdle /\ DiffIdle /\ ReportIdle

SpecCommits == InitCommits /\ [][get_commits]_vars

\* one call of get_commits on a longer log output, of commit lines, blank
\* lines and lines of fewer than four fields
MaxOrderLines == 4

OrderLinePool ==
    {"a1b2c3d|Fixes: null pointer|Ann Lee|2024-05-01",
     "c3d4e5f|refactor a|b parser|Cy|2024-05-03",
     "",
     "a|b|c"}

InitOrder ==
    /\ \E ls \in SeqUpTo(OrderLinePool, MaxOrderLines) :
          repo = [NoRepo EXCEPT !.log = Text(ls)]
    /\ issued = <<>> /\ failed = {} /\ budget = CommitsQueries
    /\ start_commit = "v1" /\ end_commit = "v2" /\ paths = NoPaths
    /\ output_file = None
    /\ generator \in {"html", "markdown"}
    /\ CommitsLocalsInit /\ gc_pc = "query"
    /\ RunIdle /\ StatsIdle /\ DiffIdle /\ ReportIdle

SpecOrder == InitOrder /\ [][get_commits]_vars

\* one call of format_diff_as_html on a diff text of up to n lines of the pool
InitDiffOver(pool, n) ==
    /\ \E ls \in SeqUpTo(pool, n) : diff_text = join(ls, "\n")
    /\ commit_hash = "abc1234"
    /\ repo_url = Some("https://github.com/o/r")
    /\ DiffLocalsInit /\ fd_pc = "call"
    /\ EnvIdle /\ ArgsIdle /\ RunIdle /\ StatsIdle /\ CommitsIdle /\ ReportIdle
    /\ generator = "html"

InitDiff == InitDiffOver(DiffLinePool, MaxDiffLines)

SpecDiff == InitDiff /\ [][format_diff_as_html]_vars

\* the same on the hunks of one file, which may be longer
InitHunk == InitDiffOver(HunkLinePool, MaxHunkLines)

SpecHunk == InitHunk /\ [][format_diff_as_html]_vars

\* one call of format_diff_as_html on lines that hold the characters html.escape
\* replaces
MaxEscapeLines == 3

EscapeLinePool ==
    {"+++ b/it's.rs",
     "@@ -3 +4 @@ f(\"x\") && g<T>",
     "+a<b> &amp; \"q\"",
     "-it's &lt;",
     " 'r' & \"s\" > <"}

InitEscape == InitDiffOver(EscapeLinePool, MaxEscapeLines)

SpecEscape == InitEscape /\ [][format_diff_as_html]_vars

\* one call of format_diff_as_html on a diff that holds lines which begin with
\* @@ and are no hunk header of the pattern: free text, and the header of a
\* combined diff
MaxMalformedLines == 4

MalformedHeaders == {"@@ malformed <x>", "@@@ -1,2 -3,4 +5,6 @@@"}

MalformedLinePool ==
    {"+++ b/src/foo.rs", "@@ -3 +4 @@", "+a<b", "-c&d", " e"} \cup MalformedHeaders

InitMalformed == InitDiffOver(MalformedLinePool, MaxMalformedLines)

SpecMalformed == InitMalformed /\ [][format_diff_as_html]_vars

\* one call of format_diff_as_html on a diff whose hunk headers declare a
\* starting line of 0 (the side of a file that is created or deleted) and
\* whose file headers may name no file
MaxZeroLines == 3

ZeroLinePool ==
    {"+++ b/src/foo.rs", "+++ /dev/null", "+++",
     "@@ -0,0 +1,2 @@", "@@ -1,2 +0,0 @@",
     "+a<b", "-c&d", " e"}

InitZero == InitDiffOver(ZeroLinePool, MaxZeroLines)

SpecZero == InitZero /\ [][format_diff_as_html]_vars

\* one call of format_diff_as_html on the file headers of a diff: of a changed,
\* an added and a deleted file, with and without a path-prefix marker
MaxHeaderLines == 3

HeaderLinePool ==
    {"+++ b/src/foo.rs", "+++ b/a/x.rs", "+++ a/old.rs", "+++ plain.txt", "+++ /dev/null",
     "--- a/src/foo.rs", "--- /dev/null",
     "@@ -3 +4 @@", "+a<b", "-c&d", " e"}

InitHeader == InitDiffOver(HeaderLinePool, MaxHeaderLines)

SpecHeader == InitHeader /\ [][format_diff_as_html]_vars

\* one call of format_diff_as_html on a hunk whose source lines begin with --
\* (a comment of SQL, Lua or Haskell) or with ++ (an increment): their diff
\* lines begin with --- and +++
MaxBodyLines == 4

BodyLinePool ==
    {"@@ -3,2 +4,2 @@", "@@ -3,3 +4,3 @@",
     "--- sql comment", "+++i;",
     "+a<b", "-c&d", " e"}

InitBody == InitDiffOver(BodyLinePool, MaxBodyLines)

SpecBody == InitBody /\ [][format_diff_as_html]_vars

\* one call of format_diff_as_html on a hunk of the end of a file that has no
\* final newline
MaxMarkerLines == 4

NoNewlineMarker == "\\ No newline at end of file"

MarkerLinePool ==
    {"+++ b/src/foo.rs", "@@ -3 +4 @@", NoNewlineMarker, "+a<b", "-c&d", " e"}

InitMarker == InitDiffOver(MarkerLinePool, MaxMarkerLines)

SpecMarker == InitMarker /\ [][format_diff_as_html]_vars

\* one call of format_diff_as_html on what git show prints around the hunks:
\* the commit's metadata, and the lines that introduce each file
MaxFilesLines == 4

MetadataLines ==
    {"commit abc1234", "diff --git a/y.rs b/y.rs", "index 1a2b3c4..5d6e7f8 100644"}

FilesLinePool == MetadataLines \cup {"+++ b/src/foo.rs", "@@ -3 +4 @@", "+a<b", "-c&d"}

InitFiles == InitDiffOver(FilesLinePool, MaxFilesLines)

SpecFiles == InitFiles /\ [][format_diff_as_html]_vars

\* one run of a report generator with each shape of the paths argument:
\* absent, an empty list, one path, and lists of one, two and three paths
FilterPathArgs ==
    {NoPaths, PathList(<<>>), OnePath("rs/nns"), PathList(<<"rs/sns">>),
     PathList(<<"rs/sns", "rs/nns">>), PathList(<<"rs/sns", "Cargo.toml", "rs/nns">>)}

InitFilter ==
    /\ \E history \in SeqUpTo(ReportCommits, MaxCommits), stray \in StrayLines :
          repo = RepoOf(history, stray)
    /\ issued = <<>> /\ failed = {} /\ budget = MaxFailures
    /\ start_commit = "a1b2c3d" /\ end_commit = "v2" /\ paths \in FilterPathArgs
    /\ output_file \in OutputFiles
    /\ generator \in {"html", "markdown"}
    /\ StatsLocalsInit /\ gcs_pc = "idle"
    /\ CommitsLocalsInit /\ gc_pc = "idle"
    /\ diff_text = "" /\ commit_hash = "" /\ repo_url = Some("https://github.com/dfinity/ic")
    /\ DiffLocalsInit /\ fd_pc = "idle"
    /\ ci = 0 /\ details = None /\ report = NoReport /\ report_pc = "start"
    /\ RunIdle /\ MainIdle

\* one call of format_diff_as_html on lines of every kind, with the lines that
\* begin like a header and are none, and the empty line a final newline leaves
MaxKindLines == 3

KindLinePool ==
    {"--- a/src/foo.rs", "+++ b/src/foo.rs", "@@ -3 +4 @@", "+a<b", "++i;", "-c&d", " e", ""}

InitKind == InitDiffOver(KindLinePool, MaxKindLines)

SpecKind == InitKind /\ [][format_diff_as_html]_vars

\* one call of format_diff_as_html that is given no base URL (repo_url=None,
\* the default of the parameter)
InitNoUrl ==
    /\ \E ls \in SeqUpTo(DiffLinePool, MaxDiffLines) : diff_text = join(ls, "\n")
    /\ commit_hash = "abc1234"
    /\ repo_url = None
    /\ DiffLocalsInit /\ fd_pc = "call"
    /\ EnvIdle /\ ArgsIdle /\ RunIdle /\ StatsIdle /\ CommitsIdle /\ ReportIdle
    /\ generator = "html"

SpecNoUrl == InitNoUrl /\ [][format_diff_as_html]_vars

\* one run of generate_html_report or generate_markdown_report on a range of
\* up to MaxCommits commits, up to MaxFailures of whose queries fail.  The
\* early return of format_diff_as_html is no step of a report: html line 929
\* calls the function only with a diff that is not empty.
Init ==
    /\ \E history \in SeqUpTo(ReportCommits, MaxCommits), stray \in StrayLines :
          repo = RepoOf(history, stray)
    /\ issued = <<>> /\ failed = {} /\ budget = MaxFailures
    /\ start_commit = "v1" /\ end_commit = "v2" /\ paths \in {NoPaths, OnePath("rs/nns")}
    /\ output_file \in OutputFiles
    /\ generator \in {"html", "markdown"}
    /\ StatsLocalsInit /\ gcs_pc = "idle"
    /\ CommitsLocalsInit /\ gc_pc = "idle"
    /\ diff_text = "" /\ commit_hash = "" /\ repo_url = Some("https://github.com/dfinity/ic")
    /\ DiffLocalsInit /\ fd_pc = "idle"
    /\ ci = 0 /\ details = None /\ report = NoReport /\ report_pc = "start"
    /\ RunIdle /\ MainIdle

Next ==
    \/ BeginReport
    \/ BuildPathFilter
    \/ CountCommits
    \/ ListFiles
    \/ DiffStat
    \/ ReturnStats
    \/ CallGetCommits
    \/ QueryLog
    \/ SkipBlankLine
    \/ SkipShortLine
    \/ AppendCommit
    \/ ReturnCommits
    \/ RaiseUnboundLocalError
    \/ WriteSummary
    \/ WriteRow
    \/ WriteFileList
    \/ FetchDetails
    \/ SplitDiff
    \/ FileHeader
    \/ HunkHeader
    \/ AddedLine
    \/ RemovedLine
    \/ ContextLine
    \/ ReturnHtml
    \/ WriteBlock
    \/ FinishReport

Spec == Init /\ [][Next]_vars

\* the same run with each shape of the paths argument
SpecFilter == InitFilter /\ [][Next]_vars

\* one run of the process, from the parsing of the command line to its exit,
\* on a range of up to MaxMainCommits commits whose queries all succeed
MaxMainCommits == 1

RepoArgs == {None, Some(""), Some("https://github.com/dfinity/ic.git")}

InitMain ==
    /\ \E history \in SeqUpTo(ReportCommits, MaxMainCommits), stray \in StrayLines :
          repo = RepoOf(history, stray)
    /\ issued = <<>> /\ failed = {} /\ budget = 0
    /\ start_commit = "v1" /\ end_commit = "v2" /\ paths = NoPaths
    /\ output_file \in OutputFiles
    /\ generator \in {"html", "markdown"}
    /\ args \in [repo : RepoArgs,
                  type : IF generator = "html" THEN {"full"} ELSE {"full", "summary"}]
    /\ cache \in {"absent", "present"}
    /\ repo_dir = None /\ printed = <<>> /\ exit_status = None /\ main_pc = "parse"
    /\ StatsLocalsInit /\ gcs_pc = "idle"
    /\ CommitsLocalsInit /\ gc_pc = "idle"
    /\ diff_text = "" /\ commit_hash = "" /\ repo_url = Some("https://github.com/dfinity/ic")
    /\ DiffLocalsInit /\ fd_pc = "idle"
    /\ ci = 0 /\ details = None /\ report = NoReport /\ report_pc = "idle"
    /\ RunIdle

main ==
    \/ ParseArgs
    \/ CheckRepo
    \/ UpdateCache
    \/ CloneToCache
    \/ FailAcquire
    \/ CallGenerator
    \/ CallSummary
    \/ ExitOnError
    \/ ReturnFromMain

NextMain == main \/ Next

SpecMain == InitMain /\ [][NextMain]_vars

----------------------------------------------------------------------------
(* Properties of get_commit_stats *)

\* the last line of a text, without the blanks around it
LastLine(text) == LET ls == split(text, "\n") IN strip(ls[Len(ls)])

\* the forms of the summary line the statements are about
BothClauses(n, a, d) ==
    ToString(n) \o " files changed, " \o ToString(a) \o " insertions(+), "
      \o ToString(d) \o " deletions(-)"

OnlyInsertions(n, a) == ToString(n) \o " files changed, " \o ToString(a) \o " insertions(+)"

OnlyDeletions(n, d) == ToString(n) \o " files changed, " \o ToString(d) \o " deletions(-)"

\* C4: when the last line of the --stat output is
\* `N files changed, A insertions(+), D deletions(-)`, get_commit_stats returns
\* lines_added = A and lines_removed = D.
C4_SummaryBothClauses ==
    gcs_pc = "done" =>
        \A n \in FileCounts, a \in StatCounts, d \in StatCounts :
            LastLine(diff_stats) = BothClauses(n, a, d) =>
                stats[1].lines_added = a /\ stats[1].lines_removed = d

\* C5: when the last line of the --stat output has one clause only, the clause
\* that is there is extracted and the missing one counts 0.
C5_SummaryOneClause ==
    gcs_pc = "done" =>
        \A n \in FileCounts, a \in StatCounts :
            /\ LastLine(diff_stats) = OnlyInsertions(n, a) =>
                  stats[1].lines_added = a /\ stats[1].lines_removed = 0
            /\ LastLine(diff_stats) = OnlyDeletions(n, a) =>
                  stats[1].lines_added = 0 /\ stats[1].lines_removed = a

\* C8: when the count, changed-file and diff-summary queries all fail,
\* get_commit_stats returns commit count 0, file count 0, lines added 0, lines
\* removed 0 and an empty file list.
C8_FailedQueriesZeroStats ==
    (gcs_pc = "done" /\ {"count", "names", "stat"} \subseteq failed) =>
        stats[1] = [commits |-> "0", files |-> 0, lines_added |-> 0, lines_removed |-> 0,
                    file_list |-> <<>>]

----------------------------------------------------------------------------
(* Properties of run_git_command *)

AllWhitespace(s) == \A k \in 1..Len(s) : Char(s, k) \in Whitespace

\* t is s with its leading and trailing whitespace removed
IsTrimmed(t, s) ==
    /\ t = "" \/ (Char(t, 1) \notin Whitespace /\ Char(t, Len(t)) \notin Whitespace)
    /\ \E k \in 0..Len(s) :
          /\ k + Len(t) <= Len(s)
          /\ SubSeq(s, k + 1, k + Len(t)) = t
          /\ AllWhitespace(SubSeq(s, 1, k))
          /\ AllWhitespace(From(s, k + Len(t) + 1))

\* C9: run_git_command returns the trimmed standard output on exit status 0 and
\* the empty string on a non-zero status or an exception; it always returns,
\* and it runs the command once.
C9_RunGitCommandContract ==
    /\ rgc_pc \in {"call", "ran", "except", "returned"}
    /\ executions = (IF rgc_pc = "call" THEN 0 ELSE 1)
    /\ rgc_pc # "returned" => ENABLED RunNext
    /\ rgc_pc = "returned" =>
          LET res == result[1] IN
          /\ rgc_return # None
          /\ (~res.raised /\ res.returncode = 0) => IsTrimmed(rgc_return[1], res.stdout)
          /\ (res.raised \/ res.returncode # 0) => rgc_return[1] = ""

C9_Witness ==
    /\ rgc_pc = "returned"
    /\ result = Some(Completed(0, "\n x y \n"))
    /\ rgc_return = Some("x y")

----------------------------------------------------------------------------
(* Properties of get_commit_type and get_commits *)

Tags == <<"feat", "fix", "chore", "docs", "refactor", "test", "style">>

AllTags == {Tags[k] : k \in 1..Len(Tags)} \cup {"other"}

\* the first tag that is a literal prefix of the lower-cased subject
TagOf(subject) ==
    LET M == {k \in 1..Len(Tags) : startswith(lower(subject), Tags[k])} IN
    IF M = {} THEN "other" ELSE Tags[CHOOSE k \in M : \A j \in M : k <= j]

\* C6: every record of the HTML generator's get_commits carries the tag of its
\* own subject: the first of feat, fix, chore, docs, refactor, test, style that
\* is a prefix of the lower-cased subject, else other.
C6_CommitTypeIsPrefixTag ==
    generator = "html" =>
        \A k \in 1..Len(commits) :
            /\ commits[k].type \in AllTags
            /\ commits[k].type = TagOf(commits[k].message)
            /\ commits[k].message = "Fixes: null pointer" => commits[k].type = "fix"
            /\ commits[k].message = "feature flag" => commits[k].type = "feat"

C6_Witness ==
    /\ generator = "html" /\ gc_pc = "done"
    /\ \E k \in 1..Len(commits) :
          commits[k].message = "Fixes: null pointer" /\ commits[k].type = "fix"
    /\ \E k \in 1..Len(commits) :
          commits[k].message = "feature flag" /\ commits[k].type = "feat"

\* C10: get_commits yields, for every commit of the log output, a record with
\* that commit's hash, subject, author and date, pipes in the subject included.
C10_SubjectPipesKept ==
    (gc_pc = "done" /\ "log" \notin failed) =>
        /\ Len(commits_return[1]) = Len(repo.commits)
        /\ \A k \in 1..Len(repo.commits) :
              /\ commits_return[1][k].hash = repo.commits[k].hash
              /\ commits_return[1][k].message = repo.commits[k].subject
              /\ commits_return[1][k].author = repo.commits[k].author
              /\ commits_return[1][k].date = repo.commits[k].date

PipeCount(line) == Cardinality({k \in 1..Len(line) : Char(line, k) = "|"})

\* a line that is not blank and holds at least four pipe-separated fields
HasFourFields(line) == ~AllWhitespace(line) /\ PipeCount(line) >= 3

\* the text of the four fields of a record, as one log line
RecordLine(c) == c.hash \o "|" \o c.message \o "|" \o c.author \o "|" \o c.date

\* C11: in get_commits a blank line and a line of fewer than four fields give
\* no record and do not end the loop (the lines after them are read, and the
\* function returns once every line was), every other line gives exactly one
\* record, and the records are in the order of their lines in the log output.
C11_OneRecordPerFullLine ==
    /\ gc_pc \in {"loop", "done"} =>
          LET kept == SelectSeq(SubSeq(log_lines, 1, gc_i - 1), HasFourFields) IN
          /\ Len(commits) = Len(kept)
          /\ \A k \in 1..Len(kept) : RecordLine(commits[k]) = kept[k]
    /\ gc_pc = "done" => gc_i = Len(log_lines) + 1 /\ commits_return = Some(commits)
    /\ (gc_pc = "done" /\ "log" \notin failed) =>
          LET kept == SelectSeq(split(repo.log, "\n"), HasFourFields) IN
          /\ Len(commits_return[1]) = Len(kept)
          /\ \A k \in 1..Len(kept) : RecordLine(commits_return[1][k]) = kept[k]

C11_Witness ==
    /\ gc_pc = "done"
    /\ log_lines = <<"c3d4e5f|refactor a|b parser|Cy|2024-05-03", "", "a|b|c",
                     "a1b2c3d|Fixes: null pointer|Ann Lee|2024-05-01">>
    /\ Len(commits_return[1]) = 2
    /\ commits_return[1][1].hash = "c3d4e5f" /\ commits_return[1][2].hash = "a1b2c3d"

----------------------------------------------------------------------------
(* Properties of format_diff_as_html *)

BodyKinds == {"line added", "line removed", "line context"}

\* the starting lines the hunk headers of the pools declare
DeclaredStart(line) ==
    CASE line = "@@ -10,5 +20,7 @@" -> [old |-> 10, new |-> 20]
      [] line = "@@ -3 +4 @@" -> [old |-> 3, new |-> 4]

IsHunkStart(line) == line \in {"@@ -10,5 +20,7 @@", "@@ -3 +4 @@"}

\* line j is a body line of the hunk whose header is line h
InHunk(h, j) ==
    /\ h < j
    /\ IsHunkStart(lines[h])
    /\ \A k \in (h + 1)..j : line_kind(lines[k]) \in BodyKinds

\* the lines of the kinds among lines h+1 .. j-1
Before(h, j, kinds) == Cardinality({k \in (h + 1)..(j - 1) : line_kind(lines[k]) \in kinds})

NewSide == {"line added", "line context"}

OldSide == {"line removed", "line context"}

Rendered == IF fd_pc \in {"loop", "done"} THEN Len(html_lines) ELSE 0

\* C1: in a hunk, an added line displays NEW + the added and context lines
\* before it, a removed line OLD + the removed and context lines before it, a
\* context line NEW + the added and context lines before it, the old counter
\* standing at OLD + the removed and context lines before it.
C1_HunkLineNumbers ==
    /\ \A h \in 1..Rendered, j \in 1..Rendered :
          InHunk(h, j) =>
            LET start == DeclaredStart(lines[h])
                kind == line_kind(lines[j])
                label == html_lines[j].label
            IN
            /\ kind = "line added" =>
                  label = "+" \o ToString(start.new + Before(h, j, NewSide))
            /\ kind = "line removed" =>
                  label = "-" \o ToString(start.old + Before(h, j, OldSide))
            /\ kind = "line context" =>
                  label = ToString(start.new + Before(h, j, NewSide))
            /\ (kind = "line context" /\ j = Rendered) =>
                  /\ line_numbers.old = start.old + Before(h, j, OldSide)
                  /\ line_numbers.new = start.new + Before(h, j, NewSide)
    /\ (fd_pc = "done" /\ lines = <<"@@ -10,5 +20,7 @@", " e", "-c&d", "+a<b">>) =>
          /\ html_lines[2].label = "20"
          /\ html_lines[3].label = "-11"
          /\ html_lines[4].label = "+21"

C1_Witness ==
    /\ fd_pc = "done"
    /\ lines = <<"@@ -10,5 +20,7 @@", " e", "-c&d", "+a<b">>
    /\ fd_return = Some(<<HtmlLine("hunk-header", "", "@@ -10,5 +20,7 @@", ""),
                          HtmlLine("line context", "20", " e", ""),
                          HtmlLine("line removed", "-11", "c&amp;d", ""),
                          HtmlLine("line added", "+21", "a&lt;b", "")>>)

\* no line of h+1 .. j starts with +++
NoHeaderBetween(h, j) == \A k \in (h + 1)..j : ~startswith(lines[k], "+++")

\* C2: a `+++ b/<path>` header sets current-file to <path>, and the deep link of
\* every added line up to the next +++ header holds <path>.
C2_HeaderPathVerbatim ==
    \A h \in 1..Rendered :
        startswith(lines[h], "+++ b/") =>
          LET path == From(lines[h], 7) IN
          /\ NoHeaderBetween(h, Rendered) => current_file = Some(path)
          /\ \A j \in (h + 1)..Rendered :
                (NoHeaderBetween(h, j) /\ html_lines[j].class = "line added"
                   /\ html_lines[j].link # "") =>
                    contains(html_lines[j].link, "/" \o path \o "#L")

\* no line of h+1 .. j is a +++ header that names a file
NoFileBetween(h, j) ==
    \A k \in (h + 1)..j : startswith(lines[k], "+++") => strip(From(lines[k], 5)) = "/dev/null"

\* C3: after a `+++ /dev/null` header current-file is unset, and the removed
\* and context lines up to the next +++ header that names a file carry no link.
C3_NoLinkAfterDevNull ==
    \A h \in 1..Rendered :
        lines[h] = "+++ /dev/null" =>
          /\ NoFileBetween(h, Rendered) => current_file = None
          /\ \A j \in (h + 1)..Rendered :
                (NoFileBetween(h, j)
                   /\ html_lines[j].class \in {"line removed", "line context"}) =>
                    html_lines[j].link = ""

C3_Witness ==
    /\ fd_pc = "done"
    /\ lines = <<"+++ b/src/foo.rs", "+++ /dev/null", "-c&d">>
    /\ current_file = None
    /\ html_lines[3] = HtmlLine("line removed", "-1", "c&amp;d", "")

----------------------------------------------------------------------------
(* Properties of a report *)

\* the count query answers 0 and the other three queries of the range answer
\* with empty text
EmptyRange ==
    /\ repo.count = "0\n" /\ repo.names = "" /\ repo.stat = "" /\ repo.log = ""
    /\ "count" \notin failed

ZeroStats ==
    [commits |-> "0", files |-> 0, lines_added |-> 0, lines_removed |-> 0, file_list |-> <<>>]

\* C7: for an empty commit range get_commit_stats yields commit count 0, file
\* count 0, 0 lines added, 0 lines removed and an empty file list, get_commits
\* yields no records, and the report generator runs to completion, with the
\* zero statistics, an empty commit table and no detail blocks; no error is
\* raised, and no step of the run before completion is one the generator
\* cannot get past.
C7_EmptyRangeReport ==
    EmptyRange =>
        /\ gcs_pc = "done" => stats = Some(ZeroStats)
        /\ gc_pc = "done" => commits_return = Some(<<>>)
        /\ report_pc = "done" =>
              /\ report.summary = Some(summary_of(ZeroStats))
              /\ report.rows = <<>>
              /\ report.file_list = Some(<<>>)
              /\ report.blocks = <<>>
        /\ report_pc # "raised"
        /\ report_pc # "done" => ENABLED Next

\* the queries of get_commit_details issued so far, and the number of commits
\* they were issued for
DetailsIssued == SubSeq(issued, StatsQueries + CommitsQueries + 1, Len(issued))

Fetched == Len(DetailsIssued) \div Len(DetailQueries)

\* C13: the details of the commits get_commits returned are fetched once each,
\* in the order of the list, each fetch after the block of the commit before
\* was written; the blocks are one per commit in that order; and the run ends,
\* by its return or by an error, only after the last commit, a failed query
\* or not.
C13_DetailsInListOrder ==
    report_pc \in {"details", "block", "render", "done", "raised"} =>
        LET cs == commits_return[1] IN
        /\ Len(DetailsIssued) = Fetched * Len(DetailQueries)
        /\ Fetched <= Len(cs)
        /\ \A j \in 1..Len(DetailsIssued) :
              LET hash == cs[((j - 1) \div Len(DetailQueries)) + 1].hash IN
              /\ startswith(DetailsIssued[j], "git show ")
              /\ \/ contains(DetailsIssued[j], " " \o hash \o " ")
                 \/ DetailsIssued[j] = SubSeq(DetailsIssued[j], 1,
                                              Len(DetailsIssued[j]) - Len(hash)) \o hash
        /\ Len(report.blocks) = (IF report_pc \in {"block", "render"} THEN Fetched - 1
                                 ELSE Fetched)
        /\ \A k \in 1..Len(report.blocks) : report.blocks[k].hash = cs[k].hash
        /\ report_pc \in {"done", "raised"} =>
              Fetched = Len(cs) /\ Len(report.blocks) = Len(cs)

----------------------------------------------------------------------------
(* Properties of the text of the records of format_diff_as_html *)

\* the character references html.escape writes, with the characters they stand for
Entities ==
    {<<"&amp;", "&">>, <<"&lt;", "<">>, <<"&gt;", ">">>, <<"&quot;", "\"">>, <<"&#x27;", "'">>}

EntityAt(s) == {e \in Entities : startswith(s, e[1])}

\* the text a reader of the document gets back from an escaped text
RECURSIVE html_unescape(_)
html_unescape(s) ==
    IF Len(s) = 0 THEN ""
    ELSE IF EntityAt(s) # {}
    THEN LET e == CHOOSE x \in EntityAt(s) : TRUE IN e[2] \o html_unescape(From(s, Len(e[1]) + 1))
    ELSE Char(s, 1) \o html_unescape(From(s, 2))

\* no character of the markup is left in s: no <, >, " or ', and every & begins
\* a character reference
IsEscaped(s) ==
    \A k \in 1..Len(s) :
        /\ Char(s, k) \notin {"<", ">", "\"", "'"}
        /\ Char(s, k) = "&" => EntityAt(From(s, k)) # {}

\* the raw content of a line: without its marker for an added or removed line
RawContent(line) ==
    IF line_kind(line) \in {"line added", "line removed"} THEN From(line, 2) ELSE line

SpecialChars == {"&", "<", ">", "\"", "'"}

\* C14: the text of every record is the escaped form of the raw content of its
\* line, and un-escaping it gives the raw content back.
C14_EscapeRoundTrip ==
    \A k \in 1..Len(html_lines) :
        /\ html_lines[k].class = line_kind(lines[k])
        /\ IsEscaped(html_lines[k].content)
        /\ html_unescape(html_lines[k].content) = RawContent(lines[k])

C14_Witness ==
    /\ fd_pc = "done"
    /\ {html_lines[k].class : k \in 1..Len(html_lines)} =
          {"line added", "line removed", "line context"}
    /\ \A c \in SpecialChars : \E k \in 1..Len(lines) : contains(RawContent(lines[k]), c)
    /\ \E k \in 1..Len(lines) :
          /\ lines[k] = "+a<b> &amp; \"q\""
          /\ html_lines[k].content = "a&lt;b&gt; &amp;amp; &quot;q&quot;"

\* the escaped text of the malformed headers
EscapedHeader(line) ==
    CASE line = "@@ malformed <x>" -> "@@ malformed &lt;x&gt;"
      [] line = "@@@ -1,2 -3,4 +5,6 @@@" -> "@@@ -1,2 -3,4 +5,6 @@@"

\* C18: the step of the loop on a line that begins with @@ and does not match
\* the hunk pattern leaves both counters and the current file as they are and
\* appends a hunk-header record with the escaped text of the line.
C18_MalformedHunkHeader ==
    [][(fd_pc = "loop" /\ fd_i <= Len(lines) /\ lines[fd_i] \in MalformedHeaders) =>
          /\ line_numbers' = line_numbers
          /\ current_file' = current_file
          /\ fd_i' = fd_i + 1
          /\ html_lines' = Append(html_lines,
                 HtmlLine("hunk-header", "", EscapedHeader(lines[fd_i]), ""))]_vars

C18_Witness ==
    /\ fd_pc = "done"
    /\ lines = <<"+++ b/src/foo.rs", "@@ -3 +4 @@", "@@ malformed <x>", "+a<b">>
    /\ html_lines[3] = HtmlLine("hunk-header", "", "@@ malformed &lt;x&gt;", "")
    /\ html_lines[4] = HtmlLine("line added", "+4", "a&lt;b",
                                "https://github.com/o/r/blob/abc1234/src/foo.rs#L4")

----------------------------------------------------------------------------
(* Properties of the links of format_diff_as_html *)

\* C12: without a base URL no record of the rendered diff carries a link.
C12_NoUrlNoLink ==
    repo_url = None => \A k \in 1..Len(html_lines) : html_lines[k].link = ""

\* C17: every call of format_diff_as_html starts its loop with both counters
\* 0, no current file and no records, and what it returns is what the
\* function of its three arguments gives: the diff of a commit rendered after
\* other commits' diffs is rendered as it would be rendered first.
C17_RenderIsFunctionOfArguments ==
    /\ (fd_pc = "loop" /\ fd_i = 1) =>
          line_numbers = [old |-> 0, new |-> 0] /\ current_file = None /\ html_lines = <<>>
    /\ fd_pc = "done" => fd_return = Some(render(diff_text, commit_hash, repo_url))
    /\ generator = "html" =>
          \A k \in 1..Len(report.blocks) :
              LET hash == report.blocks[k].hash IN
              report.blocks[k].diff # None =>
                  report.blocks[k].diff = Some(render(strip(repo.show[hash].diff), hash, repo_url))

C17_Witness ==
    /\ generator = "html" /\ report_pc = "done"
    /\ Len(report.blocks) = 2
    /\ report.blocks[1].hash = "a1b2c3d" /\ report.blocks[2].hash = "b2c3d4e"
    /\ report.blocks[1].diff # None
    /\ report.blocks[2].diff =
          Some(<<HtmlLine("line context", "1", "commit b2c3d4e", ""),
                 HtmlLine("file-header", "", "+++ /dev/null", ""),
                 HtmlLine("line removed", "-2", "c&amp;d", "")>>)

\* the record a step of the loop appends
Appended == html_lines'[Len(html_lines')]

\* C19: a record that carries a link is an added, a removed or a context line
\* written while a current file is set; the link is base/blob/hash/file#Ln
\* with n the new counter after the increment of the line for an added and a
\* context line, and base/blob/hash~1/file#Ln with n the old counter after the
\* increment for a removed line; n is the number the line displays.
C19_LinkShape ==
    [][(Len(html_lines') = Len(html_lines) + 1 /\ Appended.link # "") =>
          /\ current_file # None
          /\ current_file' = current_file
          /\ Appended.class \in BodyKinds
          /\ Appended.class = "line added" =>
                /\ line_numbers'.new = line_numbers.new + 1
                /\ Appended.label = "+" \o ToString(line_numbers'.new)
                /\ Appended.link = repo_url[1] \o "/blob/" \o commit_hash \o "/"
                                     \o current_file[1] \o "#L" \o ToString(line_numbers'.new)
          /\ Appended.class = "line context" =>
                /\ line_numbers'.new = line_numbers.new + 1
                /\ Appended.label = ToString(line_numbers'.new)
                /\ Appended.link = repo_url[1] \o "/blob/" \o commit_hash \o "/"
                                     \o current_file[1] \o "#L" \o ToString(line_numbers'.new)
          /\ Appended.class = "line removed" =>
                /\ line_numbers'.old = line_numbers.old + 1
                /\ Appended.label = "-" \o ToString(line_numbers'.old)
                /\ Appended.link = repo_url[1] \o "/blob/" \o commit_hash \o "~1/"
                                     \o current_file[1] \o "#L" \o ToString(line_numbers'.old)]_vars

C19_Witness ==
    /\ fd_pc = "done"
    /\ lines = <<"+++ b/src/foo.rs", "@@ -10,5 +20,7 @@", "-c&d", "+a<b">>
    /\ html_lines[3].link = "https://github.com/o/r/blob/abc1234~1/src/foo.rs#L10"
    /\ html_lines[4].link = "https://github.com/o/r/blob/abc1234/src/foo.rs#L20"
    /\ html_lines[3].label = "-10" /\ html_lines[4].label = "+20"

\* C20 as claimed: with a base URL an added line and a removed line carry a
\* link exactly when a current file is set at the line, whatever the counters.
C20_LinkIffCurrentFile ==
    [][(Len(html_lines') = Len(html_lines) + 1
        /\ Appended.class \in {"line added", "line removed"}) =>
          (Appended.link # "" <=> Truthy(current_file))]_vars

\* the counter of the side of a record, after the step that appends it
SideCounter == IF Appended.class = "line removed" THEN line_numbers'.old ELSE line_numbers'.new

\* C20 amended: with a base URL an added line and a removed line carry a link
\* exactly when a current file (a path that is not empty) is set at the line
\* and the counter of the line's side is greater than 0 after its increment;
\* a line whose counter is 0, after a hunk header that declares the starting
\* line 0 for its side, carries none.
C20_LinkIffCurrentFileAndPositive ==
    [][(Len(html_lines') = Len(html_lines) + 1
        /\ Appended.class \in {"line added", "line removed"}) =>
          /\ Appended.link # "" <=> (Truthy(current_file) /\ SideCounter > 0)
          /\ SideCounter >= 0]_vars

C20_Witness ==
    /\ fd_pc = "done"
    /\ lines = <<"+++ b/src/foo.rs", "@@ -1,2 +0,0 @@", "+a<b">>
    /\ current_file = Some("src/foo.rs")
    /\ html_lines[3].label = "+0" /\ html_lines[3].link = ""

\* a path without its one leading b/ or a/ marker
OneMarkerRemoved(path) ==
    IF startswith(path, "b/") \/ startswith(path, "a/") THEN From(path, 3) ELSE path

\* C21: the step on a +++ header whose path is not /dev/null sets current-file
\* to the path with one leading b/ or a/ removed, the rest kept (+++ b/a/x.rs
\* gives a/x.rs); the step on a --- header leaves current-file as it is.
C21_OneMarkerRemoved ==
    [][(fd_pc = "loop" /\ fd_i <= Len(lines)) =>
          LET line == lines[fd_i]
              path == strip(From(line, 5))
          IN
          /\ (startswith(line, "+++") /\ path # "/dev/null") =>
                current_file' = Some(OneMarkerRemoved(path))
          /\ line = "+++ b/a/x.rs" => current_file' = Some("a/x.rs")
          /\ startswith(line, "---") => current_file' = current_file]_vars

\* the numbers of lines a hunk header of the pools declares for its two sides
DeclaredLength(line) ==
    CASE line = "@@ -3,2 +4,2 @@" -> [old |-> 2, new |-> 2]
      [] line = "@@ -3,3 +4,3 @@" -> [old |-> 3, new |-> 3]
      [] OTHER -> [old |-> 0, new |-> 0]

SideLines(h, j, markers) ==
    Cardinality({k \in (h + 1)..j : Char(lines[k], 1) \in markers})

\* line j lies in the body of the hunk whose header is line h: the lines
\* h+1 .. j begin with +, - or a space and are within the lengths h declares
InBodyOf(h, j) ==
    /\ h < j
    /\ startswith(lines[h], "@@ -")
    /\ \A k \in (h + 1)..j : Len(lines[k]) > 0 /\ Char(lines[k], 1) \in {"+", "-", " "}
    /\ SideLines(h, j, {"-", " "}) <= DeclaredLength(lines[h]).old
    /\ SideLines(h, j, {"+", " "}) <= DeclaredLength(lines[h]).new

InBody(j) == \E h \in 1..(j - 1) : InBodyOf(h, j)

\* C22: the step on a line of a hunk body that begins with - appends a
\* removed-line record and adds one to the old counter, the step on one that
\* begins with + appends an added-line record and adds one to the new counter,
\* also when the line begins with --- or +++; neither changes current-file.
C22_BodyLinesByMarker ==
    [][(fd_pc = "loop" /\ fd_i <= Len(lines) /\ InBody(fd_i)) =>
          LET line == lines[fd_i] IN
          /\ startswith(line, "-") =>
                /\ Appended.class = "line removed"
                /\ line_numbers' = [line_numbers EXCEPT !.old = @ + 1]
                /\ current_file' = current_file
          /\ startswith(line, "+") =>
                /\ Appended.class = "line added"
                /\ line_numbers' = [line_numbers EXCEPT !.new = @ + 1]
                /\ current_file' = current_file]_vars

\* C23: the step on a "\ No newline at end of file" line changes neither
\* counter, so that the lines after it in the hunk keep their true numbers:
\* after @@ -3 +4 @@, a removed line and the marker, the added line is +4.
AfterBodyLines(j) ==
    \E h \in 1..(j - 1) :
        /\ startswith(lines[h], "@@ -")
        /\ h + 1 < j
        /\ \A k \in (h + 1)..(j - 1) : line_kind(lines[k]) \in BodyKinds /\ Len(lines[k]) > 0

C23_MarkerKeepsCounters ==
    /\ [][(fd_pc = "loop" /\ fd_i <= Len(lines) /\ lines[fd_i] = NoNewlineMarker
            /\ AfterBodyLines(fd_i)) =>
             line_numbers' = line_numbers]_vars
    /\ []((fd_pc = "done" /\ lines = <<"@@ -3 +4 @@", "-c&d", NoNewlineMarker, "+a<b">>) =>
             html_lines[4].label = "+4")

\* C24: the record of a line outside the hunk bodies (the commit line, the
\* diff --git and index lines of a file, of the first file and of later ones)
\* carries no link.
C24_NoLinkOutsideHunks ==
    \A k \in 1..Rendered :
        /\ (k = 1 /\ lines[k] = "commit abc1234") => html_lines[k].link = ""
        /\ lines[k] \in MetadataLines \ {"commit abc1234"} => html_lines[k].link = ""

\* the clause the four queries of a range are to carry: nothing without a
\* path, else the separator and the paths, one space between two of them
RECURSIVE SpaceSeparated(_)
SpaceSeparated(ps) ==
    IF Len(ps) = 1 THEN ps[1] ELSE ps[1] \o " " \o SpaceSeparated(Tail(ps))

ClauseOf(p) ==
    CASE p.kind = "none" -> ""
      [] p.kind = "str" -> IF p.value[1] = "" THEN "" ELSE " -- " \o p.value[1]
      [] p.kind = "list" -> IF p.value = <<>> THEN "" ELSE " -- " \o SpaceSeparated(p.value)

RangeQueries ==
    <<"git rev-list --count ", "git diff --name-only ", "git diff --stat ",
      "git log --format='%H|%s|%an|%ad' --date=short ">>

\* C25: the path filter clause is empty when no path is given (the argument
\* is absent or an empty list), " -- " and the path for one path, and " -- "
\* and the paths in their order with one space between them for a list; the
\* count, file list and diff summary queries of get_commit_stats and the log
\* query of get_commits are each the query text, the range start..end and
\* that clause.
C25_PathFilterClause ==
    /\ gcs_pc \in {"count", "names", "stat", "return", "done"} => path_filter = ClauseOf(paths)
    /\ gc_pc \in {"loop", "done"} => gc_path_filter = ClauseOf(paths)
    /\ \A k \in 1..Len(issued) :
          k <= 4 => issued[k] = RangeQueries[k] \o start_commit \o ".." \o end_commit
                                  \o ClauseOf(paths)

\* the four queries of a range have been issued for a list of three paths
C25_Witness ==
    /\ paths = PathList(<<"rs/sns", "Cargo.toml", "rs/nns">>)
    /\ Len(issued) >= 4
    /\ issued[4] = "git log --format='%H|%s|%an|%ad' --date=short a1b2c3d..v2 -- rs/sns Cargo.toml rs/nns"
    /\ issued[1] = "git rev-list --count a1b2c3d..v2 -- rs/sns Cargo.toml rs/nns"

\* the rules that give a line its kind, in the order they are tried; the
\* last one matches every line
KindRules ==
    <<[kind |-> "file-header", prefixes |-> {"+++", "---"}],
      [kind |-> "hunk-header", prefixes |-> {"@@"}],
      [kind |-> "line added", prefixes |-> {"+"}],
      [kind |-> "line removed", prefixes |-> {"-"}],
      [kind |-> "line context", prefixes |-> {""}]>>

RuleMatches(k, line) == \E p \in KindRules[k].prefixes : startswith(line, p)

KindByFirstRule(line) ==
    LET first == CHOOSE k \in 1..Len(KindRules) :
                     /\ RuleMatches(k, line)
                     /\ \A j \in 1..(k - 1) : ~RuleMatches(j, line)
    IN KindRules[first].kind

\* the text a record of a kind shows of its line
ShownText(kind, line) ==
    html_escape(IF kind \in {"line added", "line removed"} THEN From(line, 2) ELSE line)

\* C26: format_diff_as_html emits one record for every line of a diff text
\* that is not empty, in the order of the lines; the kind of the record is
\* the kind of the first rule its line matches, of: begins with +++ or ---,
\* begins with @@, begins with +, begins with -, every line; the result of an
\* empty diff text is empty.
C26_OneRecordPerLine ==
    /\ fd_pc \in {"loop", "done"} /\ diff_text # "" =>
          /\ join(lines, "\n") = diff_text
          /\ Len(html_lines) = fd_i - 1
          /\ \A k \in 1..Len(html_lines) :
                /\ html_lines[k].class = KindByFirstRule(lines[k])
                /\ html_lines[k].content = ShownText(html_lines[k].class, lines[k])
    /\ fd_pc = "done" /\ diff_text # "" =>
          Len(html_lines) = Len(lines) /\ fd_return = Some(html_lines)
    /\ fd_pc = "done" /\ diff_text = "" => html_lines = <<>> /\ fd_return = Some(<<>>)

\* a file header, an added line that begins with two markers and the empty
\* line after the final newline have been rendered
C26_Witness ==
    /\ fd_pc = "done"
    /\ diff_text = "+++ b/src/foo.rs\n++i;\n"
    /\ fd_return = Some(<<HtmlLine("file-header", "", "+++ b/src/foo.rs", ""),
                          HtmlLine("line added", "+1", "+i;",
                                   "https://github.com/o/r/blob/abc1234/src/foo.rs#L1"),
                          HtmlLine("line context", "2", "",
                                   "https://github.com/o/r/blob/abc1234/src/foo.rs#L2")>>)

\* C27: in a finished report of either generator, whichever of the queries
\* failed, the commit count of the summary is the number of rows of the
\* commit table, and that is the number of detail blocks.
C27_CountRowsBlocksAgree ==
    report_pc = "done" =>
        /\ report.summary # None
        /\ report.summary[1].commits = ToString(Len(report.rows))
        /\ Len(report.rows) = Len(report.blocks)

\* C27, amended: in a finished report of either generator, whichever of the
\* queries failed, the commit table has one row and the details one block for
\* every commit get_commits returned; the commit count of the summary is that
\* number when neither the count query nor the log query failed.
C27_RowsBlocksAgree ==
    report_pc = "done" =>
        /\ Len(report.rows) = Len(commits_return[1])
        /\ Len(report.blocks) = Len(report.rows)
        /\ \A k \in 1..Len(report.rows) : report.rows[k].hash = report.blocks[k].hash
        /\ failed \cap {"count", "log"} = {} =>
              /\ report.summary # None
              /\ report.summary[1].commits = ToString(Len(report.rows))

\* a report of two commits is finished, one query about the first commit
\* having failed
C27_Witness ==
    /\ report_pc = "done"
    /\ failed = {"author:a1b2c3d"}
    /\ report.summary # None /\ report.summary[1].commits = "2"
    /\ Len(report.rows) = 2 /\ Len(report.blocks) = 2
    /\ report.blocks[1].hash = "a1b2c3d" /\ report.blocks[1].author = ""

----------------------------------------------------------------------------
(* Properties of main *)

Printed(msg) == \E k \in 1..Len(printed) : printed[k] = msg

\* no repository URL was given, or get_cached_repo returned None
NoRepository ==
    \/ ~Truthy(args.repo)
    \/ main_pc \in {"acquired", "exited"} /\ Printed("Failed to clone repository")

Diagnostics ==
    {"error: the following arguments are required: --repo",
     "Error: Repository URL is required. Use --repo parameter.",
     "Failed to get cached repository"}

\* C15: without a repository URL, or when get_cached_repo returns None, the
\* process prints a diagnostic and exits with a status that is not 0, and at
\* no point of the run is a query of the range issued, a function of the
\* report generator entered or anything written to an output file.
C15_NoRepositoryNoReport ==
    NoRepository =>
        /\ issued = <<>>
        /\ report = NoReport /\ report_pc = "idle"
        /\ gcs_pc = "idle" /\ gc_pc = "idle" /\ fd_pc = "idle"
        /\ main_pc = "exited" =>
              /\ exit_status # None /\ exit_status # Some(0)
              /\ Len(printed) > 0 /\ printed[Len(printed)] \in Diagnostics
        /\ main_pc # "exited" => ENABLED main

C15_Witness ==
    /\ main_pc = "exited"
    /\ args.repo = Some("https://github.com/dfinity/ic.git")
    /\ repo_dir = None
    /\ printed[Len(printed)] = "Failed to get cached repository"
    /\ exit_status = Some(1)
    /\ issued = <<>> /\ report = NoReport

\* C16: in the Markdown generator a run of report type summary, once the
\* repository is acquired, writes the summary document and ends without an
\* error.
C16_SummaryReportWritten ==
    (generator = "markdown" /\ args.type = "summary" /\ Truthy(repo_dir)
     /\ main_pc = "exited") =>
        /\ exit_status = Some(0)
        /\ report.summary # None
        /\ issued # <<>>

====
